---------------------------- MODULE Spec2Model ----------------------------
(***************************************************************************)
(* A model of vscode-to-warp: the colour mapper (ConvertVSCodeToWarp and   *)
(* its helpers), the filename sanitizer (cleanFilename), the conversion    *)
(* command (Model.convertTheme: load, convert, save), the platform paths,  *)
(* theme discovery (DiscoverVSCodeThemes, extractExtensionName) and the    *)
(* interactive program (main, initialModel, Model.Update).                 *)
(*                                                                         *)
(* A Go string is modelled as a sequence of one-character strings, so that *)
(* len, slicing, trimming and replacing are computed character by          *)
(* character as the code computes them.  All characters used are ASCII,    *)
(* for which Go's byte length and character count coincide.                *)
(***************************************************************************)
EXTENDS Integers, Sequences, FiniteSets, TLC

VARIABLES
    pc,                 \* position of the operation under way
    color,              \* cleanColor: its argument
    cleaned,            \* cleanColor: its result
    name,               \* cleanFilename: its argument
    filename,           \* cleanFilename: its result
    themeFile,          \* the selected theme file: the document it holds
    vscodeTheme,        \* the parsed source theme (*VSCodeTheme)
    extensionMetadata,  \* the sidecar metadata handed to the conversion
    warpTheme,          \* the converted theme (*WarpTheme)
    files,              \* the themes directory: file name -> content written
    msg,                \* the message the conversion command returned
    run,                \* number of conversions of the theme file started
    goos,               \* runtime.GOOS
    xdgDataHome,        \* the environment variable XDG_DATA_HOME ("" if unset)
    filePath,           \* extractExtensionName: its argument (path)
    extensionName,      \* extractExtensionName: its result
    walk,               \* the calls filepath.WalkDir makes to the callback
    visited,            \* number of those calls made so far
    reads,              \* the paths handed to parseThemeFile so far
    themes,             \* DiscoverVSCodeThemes: the catalog (themes)
    discoverErr,        \* DiscoverVSCodeThemes: the error it returned
    stage,              \* main: how far the run has got
    policy,             \* which validatePlatformSupport the program is built with
    supported,          \* what validatePlatformSupport returned in this run
    model,              \* the Model of the interactive program (m)
    cmd,                \* the command the last Update returned
    conversions,        \* number of convertTheme commands issued
    quitCmd             \* tea.Quit was returned and is not yet carried out

vars == <<pc, color, cleaned, name, filename, themeFile, vscodeTheme,
          extensionMetadata, warpTheme, files, msg, run, goos, xdgDataHome,
          filePath, extensionName, walk, visited, reads, themes, discoverErr,
          stage, policy, supported, model, cmd, conversions, quitCmd>>

\* the platform the program runs on
platformVars == <<goos, xdgDataHome>>

\* the variables outside the colour mapper, the sanitizer and the conversion
\* command
\* the variables of DiscoverVSCodeThemes
discoveryVars == <<walk, visited, reads, themes, discoverErr>>

\* the variables of main, initialModel and Model.Update
mainVars == <<stage, policy, supported, model, cmd, conversions, quitCmd>>

programVars == <<platformVars, filePath, extensionName, discoveryVars, mainVars>>

\* the variables of the command that converts the selected theme
commandVars == <<themeFile, vscodeTheme, extensionMetadata, warpTheme, files,
                 msg, run>>

(***************************************************************************)
(* Bounds of the model.                                                    *)
(***************************************************************************)
\* longest colour literal of the exhaustive part of ColorInputs
MaxColorLen == 5
\* longest filter text typed
MaxFilterLen == 1
\* most entries below the extensions directory in a walk
MaxEntries == 3
\* longest extension directory name of the exhaustive part of ExtensionDirs
MaxDirLen == 4
\* longest theme name of the exhaustive part of NameInputs
MaxNameLen == 4
\* most optional fields (the type tag, the colour keys) a source theme of
\* InitConvert defines
MaxKeys == 2
\* most times the selected theme file is converted
MaxRuns == 2

(***************************************************************************)
(* Strings.                                                                *)
(***************************************************************************)
\* the characters strings.TrimSpace removes, among those the model uses
IsSpace(c) == c \in {" ", "\t"}

\* all strings over alphabet A of length at most n
StringsUpTo(A, n) == UNION {[1..k -> A] : k \in 0..n}

HasPrefix(s, prefix) ==
    /\ Len(s) >= Len(prefix)
    /\ SubSeq(s, 1, Len(prefix)) = prefix

RECURSIVE TrimLeftSpace(_)
TrimLeftSpace(s) ==
    IF s # <<>> /\ IsSpace(Head(s)) THEN TrimLeftSpace(Tail(s)) ELSE s

RECURSIVE TrimRightSpace(_)
TrimRightSpace(s) ==
    IF s # <<>> /\ IsSpace(s[Len(s)])
    THEN TrimRightSpace(SubSeq(s, 1, Len(s) - 1))
    ELSE s

TrimSpace(s) == TrimRightSpace(TrimLeftSpace(s))

(***************************************************************************)
(* cleanColor.                                                             *)
(***************************************************************************)
\* cleanColor that takes the alpha channel to make a length of 8
cleanColorAlphaAt8(c) ==
    LET t == TrimSpace(c) IN
    IF ~HasPrefix(t, <<"#">>) THEN t
    ELSE IF Len(t) = 8 THEN SubSeq(t, 1, 7)
    ELSE IF Len(t) = 4 THEN <<"#", t[2], t[2], t[3], t[3], t[4], t[4]>>
    ELSE t

\* cleanColor with the whitespace trimmed after the checks instead of before
cleanColorNoTrim(c) ==
    IF ~HasPrefix(c, <<"#">>) THEN TrimSpace(c)
    ELSE IF Len(c) = 9 THEN SubSeq(c, 1, 7)
    ELSE IF Len(c) = 4 THEN <<"#", c[2], c[2], c[3], c[3], c[4], c[4]>>
    ELSE TrimSpace(c)

cleanColor(c) ==
    LET t == TrimSpace(c) IN
    IF ~HasPrefix(t, <<"#">>) THEN t
    ELSE IF Len(t) = 9 THEN SubSeq(t, 1, 7)
    ELSE IF Len(t) = 4 THEN <<"#", t[2], t[2], t[3], t[3], t[4], t[4]>>
    ELSE t

\* the characters of the colour literals tried
ColorAlphabet == {" ", "\t", "#", "a", "b"}

\* endings that make a short literal a long one (9 characters and around)
ColorTails == {<<>>, <<"c", "d", "c", "d">>, <<"c", " ", "d", "c">>}

ColorInputs == {s \o t : s \in StringsUpTo(ColorAlphabet, MaxColorLen), t \in ColorTails}

\* values of the variables an operation has not set
NoString == <<"?">>
NoTheme == [Name |-> <<>>, Type |-> "", Colors |-> <<>>]
NoMetadata == [loaded |-> FALSE, Publisher |-> <<>>]
NoWarpTheme == [Details |-> <<>>]

\* the platform of the checks of the pure functions, which do not read it
PlatformIdle ==
    /\ goos = "darwin"
    /\ xdgDataHome = ""

DiscoveryIdle ==
    /\ walk = <<>>
    /\ visited = 0
    /\ reads = <<>>
    /\ themes = <<>>
    /\ discoverErr = "none"

\* the Model before initialModel has made one
NoModel ==
    [themes |-> <<>>, filteredThemes |-> <<>>, choice |-> <<>>,
     quitting |-> FALSE, converting |-> FALSE, converted |-> FALSE,
     errorMsg |-> "", filterMode |-> FALSE, filterText |-> <<>>,
     cursor |-> 0, width |-> 0]

MainIdle ==
    /\ stage = "none"
    /\ policy = "all platforms"
    /\ supported = "unchecked"
    /\ model = NoModel
    /\ cmd = "nil"
    /\ conversions = 0
    /\ quitCmd = FALSE

ProgramIdle ==
    /\ PlatformIdle
    /\ filePath = NoString
    /\ extensionName = NoString
    /\ DiscoveryIdle
    /\ MainIdle

CommandIdle ==
    /\ themeFile = NoTheme
    /\ vscodeTheme = NoTheme
    /\ extensionMetadata = NoMetadata
    /\ warpTheme = NoWarpTheme
    /\ files = {}
    /\ msg = "none"
    /\ run = 0

InitClean ==
    /\ pc = "cleanColor"
    /\ color \in ColorInputs
    /\ cleaned = NoString
    /\ name = NoString
    /\ filename = NoString
    /\ CommandIdle
    /\ ProgramIdle

CleanColorCall ==
    /\ pc = "cleanColor"
    /\ cleaned' = cleanColor(color)
    /\ pc' = "cleaned"
    /\ UNCHANGED <<color, name, filename>>
    /\ UNCHANGED commandVars
    /\ UNCHANGED programVars

NextClean == CleanColorCall

SpecClean == InitClean /\ [][NextClean]_vars

(***************************************************************************)
(* cleanFilename.                                                          *)
(***************************************************************************)
\* strings.ReplaceAll(s, old, new) for a non-empty old: the non-overlapping
\* occurrences of old, found from the left, are replaced
RECURSIVE ReplaceAll(_, _, _)
ReplaceAll(s, old, new) ==
    IF s = <<>> THEN <<>>
    ELSE IF HasPrefix(s, old)
         THEN new \o ReplaceAll(SubSeq(s, Len(old) + 1, Len(s)), old, new)
         ELSE <<Head(s)>> \o ReplaceAll(Tail(s), old, new)

\* strings.Contains(s, sub)
Contains(s, sub) ==
    \E i \in 1..(Len(s) - Len(sub) + 1) : SubSeq(s, i, i + Len(sub) - 1) = sub

UpperCase == <<"A", "B", "C", "D", "E", "F", "G", "H", "I", "J", "K", "L", "M",
               "N", "O", "P", "Q", "R", "S", "T", "U", "V", "W", "X", "Y", "Z">>
LowerCase == <<"a", "b", "c", "d", "e", "f", "g", "h", "i", "j", "k", "l", "m",
               "n", "o", "p", "q", "r", "s", "t", "u", "v", "w", "x", "y", "z">>

LowerChar(c) ==
    IF \E i \in 1..26 : UpperCase[i] = c
    THEN LowerCase[CHOOSE i \in 1..26 : UpperCase[i] = c]
    ELSE c

\* strings.ToLower(s)
ToLower(s) == [i \in 1..Len(s) |-> LowerChar(s[i])]

\* strings.Trim(s, cutset) for a one-character cutset
RECURSIVE TrimChar(_, _)
TrimChar(s, c) ==
    IF s # <<>> /\ Head(s) = c THEN TrimChar(Tail(s), c)
    ELSE IF s # <<>> /\ s[Len(s)] = c THEN TrimChar(SubSeq(s, 1, Len(s) - 1), c)
    ELSE s

\* the loop of cleanFilename that removes consecutive underscores
RECURSIVE CollapseUnderscores(_)
CollapseUnderscores(s) ==
    IF Contains(s, <<"_", "_">>)
    THEN CollapseUnderscores(ReplaceAll(s, <<"_", "_">>, <<"_">>))
    ELSE s

\* the characters cleanFilename replaces by '_', in the order of its lines
ReplacedChars == <<" ", "/", "\\", ":", "*", "?", "\"", "<", ">", "|">>

RECURSIVE ReplaceEach(_, _)
ReplaceEach(s, chars) ==
    IF chars = <<>> THEN s
    ELSE ReplaceEach(ReplaceAll(s, <<Head(chars)>>, <<"_">>), Tail(chars))

\* cleanFilename with the "__" replaced once instead of in a loop
cleanFilenameOnePass(n) ==
    LET replaced == ReplaceEach(n, ReplacedChars)
        noParens == ReplaceAll(ReplaceAll(replaced, <<"(">>, <<>>), <<")">>, <<>>)
        lower    == ToLower(noParens)
    IN  TrimChar(ReplaceAll(lower, <<"_", "_">>, <<"_">>), "_")

cleanFilename(n) ==
    LET replaced == ReplaceEach(n, ReplacedChars)
        noParens == ReplaceAll(ReplaceAll(replaced, <<"(">>, <<>>), <<")">>, <<>>)
        lower    == ToLower(noParens)
    IN  TrimChar(CollapseUnderscores(lower), "_")

\* the characters of the exhaustive theme names; the space stands for each
\* replaced character in turn
NameAlphabet == {" ", "(", ")", "_", "A", "!"}

Subst(s, c) == [i \in 1..Len(s) |-> IF s[i] = " " THEN c ELSE s[i]]

\* "My Theme (Pro)!! v2"
ExampleName ==
    <<"M", "y", " ", "T", "h", "e", "m", "e", " ", "(", "P", "r", "o", ")",
      "!", "!", " ", "v", "2">>

\* longer names, with runs of underscores inside
NameSamples ==
    { ExampleName,
      <<"a", "_", "_", "_", "b">>,
      <<"a", " ", "(", ")", " ", "/", "B">>,
      <<"O", "n", "e", ":", " ", "<", "D", "a", "r", "k", ">", "|", "*", "?">>,
      <<"(", " ", ")">> }

NameInputs ==
    {Subst(s, ReplacedChars[k]) :
        s \in StringsUpTo(NameAlphabet, MaxNameLen), k \in 1..Len(ReplacedChars)}
    \cup NameSamples

InitName ==
    /\ pc = "cleanFilename"
    /\ name \in NameInputs
    /\ filename = NoString
    /\ color = NoString
    /\ cleaned = NoString
    /\ CommandIdle
    /\ ProgramIdle

CleanFilenameCall ==
    /\ pc = "cleanFilename"
    /\ filename' = cleanFilename(name)
    /\ pc' = "named"
    /\ UNCHANGED <<color, cleaned, name>>
    /\ UNCHANGED commandVars
    /\ UNCHANGED programVars

NextName == CleanFilenameCall

SpecName == InitName /\ [][NextName]_vars

(***************************************************************************)
(* cleanFilename statement by statement: each strings.ReplaceAll, the      *)
(* lowercasing, each iteration of the loop over "__", the final trim.      *)
(* filename holds the local variable name as the statements rewrite it.    *)
(***************************************************************************)
\* the strings.ReplaceAll statements before the loop, in the order of the
\* lines; at is the value of pc before the statement
ReplaceStatements ==
    << [at |-> "replace space",     old |-> " ",  new |-> <<"_">>],
       [at |-> "replace slash",     old |-> "/",  new |-> <<"_">>],
       [at |-> "replace backslash", old |-> "\\", new |-> <<"_">>],
       [at |-> "replace colon",     old |-> ":",  new |-> <<"_">>],
       [at |-> "replace star",      old |-> "*",  new |-> <<"_">>],
       [at |-> "replace question",  old |-> "?",  new |-> <<"_">>],
       [at |-> "replace quote",     old |-> "\"", new |-> <<"_">>],
       [at |-> "replace less",      old |-> "<",  new |-> <<"_">>],
       [at |-> "replace greater",   old |-> ">",  new |-> <<"_">>],
       [at |-> "replace bar",       old |-> "|",  new |-> <<"_">>],
       [at |-> "remove open",       old |-> "(",  new |-> <<>>],
       [at |-> "remove close",      old |-> ")",  new |-> <<>>] >>

\* a loop body that replaces "__" by itself
collapseOnceInPlace(s) == ReplaceAll(s, <<"_", "_">>, <<"_", "_">>)

\* the body of the loop: one strings.ReplaceAll(name, "__", "_")
collapseOnce(s) == ReplaceAll(s, <<"_", "_">>, <<"_">>)

\* the characters of the names whose statements are followed one by one
StatementAlphabet == {" ", "_", "(", "A"}

StatementInputs == StringsUpTo(StatementAlphabet, MaxNameLen) \cup NameSamples

InitFilename ==
    /\ pc = "call"
    /\ name = NoString
    /\ filename = NoString
    /\ color = NoString
    /\ cleaned = NoString
    /\ CommandIdle
    /\ ProgramIdle

\* the caller passes a name
CallCleanFilename ==
    /\ pc = "call"
    /\ name' \in StatementInputs
    /\ filename' = name'
    /\ pc' = ReplaceStatements[1].at
    /\ UNCHANGED <<color, cleaned>>
    /\ UNCHANGED commandVars
    /\ UNCHANGED programVars

ReplaceStatement ==
    /\ \E i \in 1..Len(ReplaceStatements) :
          /\ pc = ReplaceStatements[i].at
          /\ filename' = ReplaceAll(filename, <<ReplaceStatements[i].old>>,
                                    ReplaceStatements[i].new)
          /\ pc' = IF i < Len(ReplaceStatements)
                   THEN ReplaceStatements[i + 1].at
                   ELSE "lower"
    /\ UNCHANGED <<color, cleaned, name>>
    /\ UNCHANGED commandVars
    /\ UNCHANGED programVars

LowerStatement ==
    /\ pc = "lower"
    /\ filename' = ToLower(filename)
    /\ pc' = "loop"
    /\ UNCHANGED <<color, cleaned, name>>
    /\ UNCHANGED commandVars
    /\ UNCHANGED programVars

CollapseIteration ==
    /\ pc = "loop"
    /\ Contains(filename, <<"_", "_">>)
    /\ filename' = collapseOnce(filename)
    /\ UNCHANGED <<pc, color, cleaned, name>>
    /\ UNCHANGED commandVars
    /\ UNCHANGED programVars

TrimUnderscores ==
    /\ pc = "loop"
    /\ ~Contains(filename, <<"_", "_">>)
    /\ filename' = TrimChar(filename, "_")
    /\ pc' = "named"
    /\ UNCHANGED <<color, cleaned, name>>
    /\ UNCHANGED commandVars
    /\ UNCHANGED programVars

NextFilename ==
    \/ CallCleanFilename
    \/ ReplaceStatement
    \/ LowerStatement
    \/ CollapseIteration
    \/ TrimUnderscores

\* the statements of a call run one after the other until it returns
SpecFilename == InitFilename /\ [][NextFilename]_vars /\ WF_vars(NextFilename)

(***************************************************************************)
(* The colour mapper.                                                      *)
(***************************************************************************)
\* getColorOrDefault that takes any present value, the empty one too
getColorIfPresent(colors, key, defaultValue) ==
    IF key \in DOMAIN colors THEN cleanColor(colors[key]) ELSE defaultValue

getColorOrDefault(colors, key, defaultValue) ==
    IF key \in DOMAIN colors /\ colors[key] # <<>>
    THEN cleanColor(colors[key])
    ELSE defaultValue

\* findFirstColor that keeps looking and so returns the last key's colour
RECURSIVE findLastColor(_, _, _)
findLastColor(colors, keys, defaultValue) ==
    IF keys = <<>> THEN defaultValue
    ELSE LET key == keys[Len(keys)] IN
         IF key \in DOMAIN colors /\ colors[key] # <<>>
         THEN cleanColor(colors[key])
         ELSE findLastColor(colors, SubSeq(keys, 1, Len(keys) - 1), defaultValue)

RECURSIVE findFirstColor(_, _, _)
findFirstColor(colors, keys, defaultValue) ==
    IF keys = <<>> THEN defaultValue
    ELSE LET key == Head(keys) IN
         IF key \in DOMAIN colors /\ colors[key] # <<>>
         THEN cleanColor(colors[key])
         ELSE findFirstColor(colors, Tail(keys), defaultValue)

accentKeys ==
    <<"focusBorder", "button.background", "progressBar.background",
      "textLink.foreground", "editorCursor.foreground", "terminal.ansiBlue">>

\* convertTerminalColors whose bright slots fall back to the normal keys
convertTerminalColorsFallback(colors) ==
    LET normal(k, d) == getColorOrDefault(colors, k, d) IN
    [ Normal |->
        [ Black   |-> normal("terminal.ansiBlack", <<"#", "1", "e", "1", "e", "1", "e">>),
          Red     |-> normal("terminal.ansiRed", <<"#", "f", "4", "4", "7", "4", "7">>),
          Green   |-> normal("terminal.ansiGreen", <<"#", "6", "a", "9", "9", "5", "5">>),
          Yellow  |-> normal("terminal.ansiYellow", <<"#", "d", "c", "d", "c", "a", "a">>),
          Blue    |-> normal("terminal.ansiBlue", <<"#", "5", "6", "9", "c", "d", "6">>),
          Magenta |-> normal("terminal.ansiMagenta", <<"#", "c", "5", "8", "6", "c", "0">>),
          Cyan    |-> normal("terminal.ansiCyan", <<"#", "9", "c", "d", "c", "f", "e">>),
          White   |-> normal("terminal.ansiWhite", <<"#", "d", "4", "d", "4", "d", "4">>) ],
      Bright |->
        [ Black   |-> getColorOrDefault(colors, "terminal.ansiBrightBlack", normal("terminal.ansiBlack", <<"#", "6", "8", "6", "8", "6", "8">>)),
          Red     |-> getColorOrDefault(colors, "terminal.ansiBrightRed", normal("terminal.ansiRed", <<"#", "f", "4", "4", "7", "4", "7">>)),
          Green   |-> getColorOrDefault(colors, "terminal.ansiBrightGreen", normal("terminal.ansiGreen", <<"#", "6", "a", "9", "9", "5", "5">>)),
          Yellow  |-> getColorOrDefault(colors, "terminal.ansiBrightYellow", normal("terminal.ansiYellow", <<"#", "d", "c", "d", "c", "a", "a">>)),
          Blue    |-> getColorOrDefault(colors, "terminal.ansiBrightBlue", normal("terminal.ansiBlue", <<"#", "5", "6", "9", "c", "d", "6">>)),
          Magenta |-> getColorOrDefault(colors, "terminal.ansiBrightMagenta", normal("terminal.ansiMagenta", <<"#", "c", "5", "8", "6", "c", "0">>)),
          Cyan    |-> getColorOrDefault(colors, "terminal.ansiBrightCyan", normal("terminal.ansiCyan", <<"#", "9", "c", "d", "c", "f", "e">>)),
          White   |-> getColorOrDefault(colors, "terminal.ansiBrightWhite", normal("terminal.ansiWhite", <<"#", "f", "f", "f", "f", "f", "f">>)) ] ]

convertTerminalColors(colors) ==
    [ Normal |->
        [
          Black   |-> getColorOrDefault(colors, "terminal.ansiBlack", <<"#", "1", "e", "1", "e", "1", "e">>),
          Red     |-> getColorOrDefault(colors, "terminal.ansiRed", <<"#", "f", "4", "4", "7", "4", "7">>),
          Green   |-> getColorOrDefault(colors, "terminal.ansiGreen", <<"#", "6", "a", "9", "9", "5", "5">>),
          Yellow  |-> getColorOrDefault(colors, "terminal.ansiYellow", <<"#", "d", "c", "d", "c", "a", "a">>),
          Blue    |-> getColorOrDefault(colors, "terminal.ansiBlue", <<"#", "5", "6", "9", "c", "d", "6">>),
          Magenta |-> getColorOrDefault(colors, "terminal.ansiMagenta", <<"#", "c", "5", "8", "6", "c", "0">>),
          Cyan    |-> getColorOrDefault(colors, "terminal.ansiCyan", <<"#", "9", "c", "d", "c", "f", "e">>),
          White   |-> getColorOrDefault(colors, "terminal.ansiWhite", <<"#", "d", "4", "d", "4", "d", "4">>) ],
      Bright |->
        [
          Black   |-> getColorOrDefault(colors, "terminal.ansiBrightBlack", <<"#", "6", "8", "6", "8", "6", "8">>),
          Red     |-> getColorOrDefault(colors, "terminal.ansiBrightRed", <<"#", "f", "4", "4", "7", "4", "7">>),
          Green   |-> getColorOrDefault(colors, "terminal.ansiBrightGreen", <<"#", "6", "a", "9", "9", "5", "5">>),
          Yellow  |-> getColorOrDefault(colors, "terminal.ansiBrightYellow", <<"#", "d", "c", "d", "c", "a", "a">>),
          Blue    |-> getColorOrDefault(colors, "terminal.ansiBrightBlue", <<"#", "5", "6", "9", "c", "d", "6">>),
          Magenta |-> getColorOrDefault(colors, "terminal.ansiBrightMagenta", <<"#", "c", "5", "8", "6", "c", "0">>),
          Cyan    |-> getColorOrDefault(colors, "terminal.ansiBrightCyan", <<"#", "9", "c", "d", "c", "f", "e">>),
          White   |-> getColorOrDefault(colors, "terminal.ansiBrightWhite", <<"#", "f", "f", "f", "f", "f", "f">>) ] ]

\* the details tag with the type compared case-insensitively
themeDetailsAnyCase(type) ==
    IF type \in {"light", "Light"} THEN <<"l", "i", "g", "h", "t", "e", "r">>
    ELSE <<"d", "a", "r", "k", "e", "r">>

\* the dark/light branch of ConvertVSCodeToWarp
themeDetails(type) ==
    IF type = "light" THEN <<"l", "i", "g", "h", "t", "e", "r">>
    ELSE <<"d", "a", "r", "k", "e", "r">>

\* a conversion that takes its accent from the extension's metadata
ConvertWithAttribution(theme, metadata) ==
    [ Accent     |-> IF metadata.loaded
                     THEN <<"#", "f", "f", "f", "f", "f", "f">>
                     ELSE findFirstColor(theme.Colors, accentKeys, <<"#", "0", "0", "7", "a", "c", "c">>),
      Background |-> getColorOrDefault(theme.Colors, "editor.background", <<"#", "1", "e", "1", "e", "1", "e">>),
      Details    |-> themeDetails(theme.Type),
      Foreground |-> getColorOrDefault(theme.Colors, "editor.foreground", <<"#", "d", "4", "d", "4", "d", "4">>),
      TerminalColors |-> convertTerminalColors(theme.Colors) ]

\* ConvertVSCodeToWarp as Model.convertTheme calls it, with the extension's
\* metadata; the conversion does not read the metadata
ConvertVSCodeToWarp(theme, metadata) ==
    [ Accent     |-> findFirstColor(theme.Colors, accentKeys, <<"#", "0", "0", "7", "a", "c", "c">>),
      Background |-> getColorOrDefault(theme.Colors, "editor.background", <<"#", "1", "e", "1", "e", "1", "e">>),
      Details    |-> themeDetails(theme.Type),
      Foreground |-> getColorOrDefault(theme.Colors, "editor.foreground", <<"#", "d", "4", "d", "4", "d", "4">>),
      TerminalColors |-> convertTerminalColors(theme.Colors) ]

(***************************************************************************)
(* The conversion on its own: ConvertVSCodeToWarp applied to a source      *)
(* theme that defines at most MaxKeys of its optional fields, the type tag *)
(* and the colour keys.                                                    *)
(***************************************************************************)
PaletteColors == <<"Black", "Red", "Green", "Yellow", "Blue", "Magenta", "Cyan", "White">>

\* the colour keys the conversion reads, and one it does not
ColorKeys ==
    {"editor.background", "editor.foreground", "editor.selectionBackground"}
    \cup {accentKeys[i] : i \in 1..Len(accentKeys)}
    \cup {"terminal.ansi" \o PaletteColors[i] : i \in 1..8}
    \cup {"terminal.ansiBright" \o PaletteColors[i] : i \in 1..8}

\* the values tried: empty, blank, shorthand hex after a space, hex of a
\* wrong length, and a named colour with a space after it
ColorValues ==
    { <<>>, <<" ", "\t", " ">>, <<" ", "#", "a", "b", "c">>, <<"#", "1">>,
      <<"r", "e", "d", " ">> }

\* the type tags tried: absent, dark, light, and light in another case
TypeTags == {"", "dark", "light", "Light"}

\* the sets of at most n colour keys
RECURSIVE KeySets(_)
KeySets(n) ==
    IF n = 0 THEN {{}}
    ELSE LET smaller == KeySets(n - 1) IN
         smaller \cup {S \cup {k} : S \in smaller, k \in ColorKeys}

SomeName == <<"O", "n", "e">>

InitConvert ==
    /\ pc = "convert"
    /\ \E type \in TypeTags :
         \E S \in KeySets(IF type = "" THEN MaxKeys ELSE MaxKeys - 1) :
            \E colors \in [S -> ColorValues] :
               vscodeTheme = [Name |-> SomeName, Type |-> type, Colors |-> colors]
    /\ themeFile = NoTheme
    /\ extensionMetadata = NoMetadata
    /\ warpTheme = NoWarpTheme
    /\ color = NoString
    /\ cleaned = NoString
    /\ name = NoString
    /\ filename = NoString
    /\ files = {}
    /\ msg = "none"
    /\ run = 0
    /\ ProgramIdle

ConvertCall ==
    /\ pc = "convert"
    /\ warpTheme' = ConvertVSCodeToWarp(vscodeTheme, extensionMetadata)
    /\ pc' = "converted"
    /\ UNCHANGED <<color, cleaned, name, filename>>
    /\ UNCHANGED <<themeFile, vscodeTheme, extensionMetadata, files, msg, run>>
    /\ UNCHANGED programVars

NextConvert == ConvertCall

SpecConvert == InitConvert /\ [][NextConvert]_vars

(***************************************************************************)
(* Claims about the conversion (checked under SpecConvert).                *)
(***************************************************************************)
Colors == vscodeTheme.Colors

\* key is present in the source map
Present(key) == key \in DOMAIN Colors

\* key is present in the source map with a non-empty value
NonEmpty(key) == key \in DOMAIN Colors /\ Colors[key] # <<>>

\* the sixteen palette slots: where each is in the result, the one source key
\* that feeds it and its default
PaletteSlots ==
     <<
       [pal |-> "Normal", col |-> "Black", key |-> "terminal.ansiBlack", def |-> <<"#", "1", "e", "1", "e", "1", "e">>],
       [pal |-> "Normal", col |-> "Red", key |-> "terminal.ansiRed", def |-> <<"#", "f", "4", "4", "7", "4", "7">>],
       [pal |-> "Normal", col |-> "Green", key |-> "terminal.ansiGreen", def |-> <<"#", "6", "a", "9", "9", "5", "5">>],
       [pal |-> "Normal", col |-> "Yellow", key |-> "terminal.ansiYellow", def |-> <<"#", "d", "c", "d", "c", "a", "a">>],
       [pal |-> "Normal", col |-> "Blue", key |-> "terminal.ansiBlue", def |-> <<"#", "5", "6", "9", "c", "d", "6">>],
       [pal |-> "Normal", col |-> "Magenta", key |-> "terminal.ansiMagenta", def |-> <<"#", "c", "5", "8", "6", "c", "0">>],
       [pal |-> "Normal", col |-> "Cyan", key |-> "terminal.ansiCyan", def |-> <<"#", "9", "c", "d", "c", "f", "e">>],
       [pal |-> "Normal", col |-> "White", key |-> "terminal.ansiWhite", def |-> <<"#", "d", "4", "d", "4", "d", "4">>],
       [pal |-> "Bright", col |-> "Black", key |-> "terminal.ansiBrightBlack", def |-> <<"#", "6", "8", "6", "8", "6", "8">>],
       [pal |-> "Bright", col |-> "Red", key |-> "terminal.ansiBrightRed", def |-> <<"#", "f", "4", "4", "7", "4", "7">>],
       [pal |-> "Bright", col |-> "Green", key |-> "terminal.ansiBrightGreen", def |-> <<"#", "6", "a", "9", "9", "5", "5">>],
       [pal |-> "Bright", col |-> "Yellow", key |-> "terminal.ansiBrightYellow", def |-> <<"#", "d", "c", "d", "c", "a", "a">>],
       [pal |-> "Bright", col |-> "Blue", key |-> "terminal.ansiBrightBlue", def |-> <<"#", "5", "6", "9", "c", "d", "6">>],
       [pal |-> "Bright", col |-> "Magenta", key |-> "terminal.ansiBrightMagenta", def |-> <<"#", "c", "5", "8", "6", "c", "0">>],
       [pal |-> "Bright", col |-> "Cyan", key |-> "terminal.ansiBrightCyan", def |-> <<"#", "9", "c", "d", "c", "f", "e">>],
       [pal |-> "Bright", col |-> "White", key |-> "terminal.ansiBrightWhite", def |-> <<"#", "f", "f", "f", "f", "f", "f">>] >>

SlotValue(i) == warpTheme.TerminalColors[PaletteSlots[i].pal][PaletteSlots[i].col]

AccentOrder ==
    <<"focusBorder", "button.background", "progressBar.background",
      "textLink.foreground", "editorCursor.foreground", "terminal.ansiBlue">>

\* the accent keys present with a non-empty value, as places of AccentOrder
AccentPresent == {i \in 1..Len(AccentOrder) : NonEmpty(AccentOrder[i])}

FirstAccent == CHOOSE i \in AccentPresent : \A j \in AccentPresent : i <= j

\* C1: the accent is cleanColor of the value of the first key of the ordered
\* list that is present with a non-empty value, whatever later keys are
\* present; with no such key it is "#007acc".
C1_AccentFirstKeyWins ==
    pc = "converted" =>
        IF AccentPresent = {}
        THEN warpTheme.Accent = <<"#", "0", "0", "7", "a", "c", "c">>
        ELSE warpTheme.Accent = cleanColor(Colors[AccentOrder[FirstAccent]])

\* C1 witness: textLink.foreground and terminal.ansiBlue are the only keys,
\* with different colours, and the accent is textLink.foreground's.
C1_Witness ==
    /\ pc = "converted"
    /\ DOMAIN Colors = {"textLink.foreground", "terminal.ansiBlue"}
    /\ Colors["textLink.foreground"] = <<" ", "#", "a", "b", "c">>
    /\ Colors["terminal.ansiBlue"] = <<"#", "1">>
    /\ warpTheme.Accent = <<"#", "a", "a", "b", "b", "c", "c">>

\* C2 as stated: background (foreground) is the default when editor.background
\* (editor.foreground) is missing and the cleaned value of the key whenever
\* the key is present.
C2_PresentKeyIsUsed ==
    pc = "converted" =>
        /\ warpTheme.Background =
              IF Present("editor.background")
              THEN cleanColor(Colors["editor.background"])
              ELSE <<"#", "1", "e", "1", "e", "1", "e">>
        /\ warpTheme.Foreground =
              IF Present("editor.foreground")
              THEN cleanColor(Colors["editor.foreground"])
              ELSE <<"#", "d", "4", "d", "4", "d", "4">>

\* C2 amended: background (foreground) is the cleaned value of
\* editor.background (editor.foreground) when that key is present with a
\* non-empty value, and the default "#1e1e1e" ("#d4d4d4") when the key is
\* missing or its value is empty; no other key influences the field.
C2_BackgroundForeground ==
    pc = "converted" =>
        /\ warpTheme.Background =
              IF NonEmpty("editor.background")
              THEN cleanColor(Colors["editor.background"])
              ELSE <<"#", "1", "e", "1", "e", "1", "e">>
        /\ warpTheme.Foreground =
              IF NonEmpty("editor.foreground")
              THEN cleanColor(Colors["editor.foreground"])
              ELSE <<"#", "d", "4", "d", "4", "d", "4">>

\* C2 witness: editor.background is missing and editor.foreground present
\* beside another key; the background is the default, the foreground the
\* cleaned value.
C2_Witness ==
    /\ pc = "converted"
    /\ DOMAIN Colors = {"editor.foreground", "terminal.ansiWhite"}
    /\ Colors["editor.foreground"] = <<" ", "#", "a", "b", "c">>
    /\ Colors["terminal.ansiWhite"] = <<"#", "1">>
    /\ warpTheme.Background = <<"#", "1", "e", "1", "e", "1", "e">>
    /\ warpTheme.Foreground = <<"#", "a", "a", "b", "b", "c", "c">>

\* C3 as stated: each palette slot is the cleaned value of its own key
\* whenever that key is present, else the slot's default.
C3_PresentSlotKeyIsUsed ==
    pc = "converted" =>
        \A i \in 1..Len(PaletteSlots) :
            SlotValue(i) = IF Present(PaletteSlots[i].key)
                           THEN cleanColor(Colors[PaletteSlots[i].key])
                           ELSE PaletteSlots[i].def

\* C3 amended: each of the 16 palette slots is determined by its own source
\* key only: the cleaned value of that key when it is present with a
\* non-empty value, else (key missing or value empty) the slot's default; a
\* bright slot never falls back to the normal key.
C3_PaletteSlots ==
    pc = "converted" =>
        \A i \in 1..Len(PaletteSlots) :
            SlotValue(i) = IF NonEmpty(PaletteSlots[i].key)
                           THEN cleanColor(Colors[PaletteSlots[i].key])
                           ELSE PaletteSlots[i].def

\* C3 witness: only terminal.ansiRed is defined; normal red is its cleaned
\* value and bright red is the bright slot's default.
C3_Witness ==
    /\ pc = "converted"
    /\ DOMAIN Colors = {"terminal.ansiRed"}
    /\ Colors["terminal.ansiRed"] = <<" ", "#", "a", "b", "c">>
    /\ warpTheme.TerminalColors.Normal.Red = <<"#", "a", "a", "b", "b", "c", "c">>
    /\ warpTheme.TerminalColors.Bright.Red = <<"#", "f", "4", "4", "7", "4", "7">>
    /\ warpTheme.TerminalColors.Bright.Black = <<"#", "6", "8", "6", "8", "6", "8">>

\* C4: details is "lighter" exactly when the type tag is "light", and
\* "darker" for every other tag.
C4_Details ==
    pc = "converted" =>
        /\ (warpTheme.Details = <<"l", "i", "g", "h", "t", "e", "r">>)
              <=> (vscodeTheme.Type = "light")
        /\ vscodeTheme.Type # "light"
              => warpTheme.Details = <<"d", "a", "r", "k", "e", "r">>

\* C4 witness: a theme tagged "Light" was converted and came out "darker".
C4_Witness ==
    /\ pc = "converted"
    /\ vscodeTheme.Type = "Light"
    /\ warpTheme.Details = <<"d", "a", "r", "k", "e", "r">>

\* the nineteen colour fields of the result
ColorFields ==
    {warpTheme.Accent, warpTheme.Background, warpTheme.Foreground}
    \cup {SlotValue(i) : i \in 1..Len(PaletteSlots)}

\* C5: every field of the result (accent, background, details, foreground and
\* the 16 palette slots) is a non-empty string.
C5_EveryFieldPopulated ==
    pc = "converted" =>
        /\ warpTheme.Details # <<>>
        /\ \A f \in ColorFields : f # <<>>

\* a 7-character literal that starts with '#'
SevenCharHash(f) == Len(f) = 7 /\ f[1] = "#"

Trimmed(v) ==
    LET inside == {i \in 1..Len(v) : ~IsSpace(v[i])} IN
    IF inside = {} THEN <<>>
    ELSE SubSeq(v, CHOOSE i \in inside : \A j \in inside : i <= j,
                   CHOOSE i \in inside : \A j \in inside : j <= i)

\* field f is what a source value v may become
NormalisedFrom(f, v) ==
    LET t == Trimmed(v) IN
    IF t # <<>> /\ t[1] = "#" /\ Len(t) \in {4, 7, 9}
    THEN SevenCharHash(f)
    ELSE f = t

\* the source keys with their fields
FieldSources ==
    {[key |-> "editor.background", field |-> warpTheme.Background],
     [key |-> "editor.foreground", field |-> warpTheme.Foreground]}
    \cup {[key |-> PaletteSlots[i].key, field |-> SlotValue(i)] :
             i \in 1..Len(PaletteSlots)}
    \cup (IF AccentPresent = {} THEN {}
          ELSE {[key |-> AccentOrder[FirstAccent], field |-> warpTheme.Accent]})

C7_CleanColor ==
    pc = "cleaned" =>
        LET t == Trimmed(color) IN
        IF t = <<>> \/ t[1] # "#" THEN cleaned = t
        ELSE IF Len(t) = 9
             THEN Len(cleaned) = 7 /\ \A i \in 1..7 : cleaned[i] = t[i]
        ELSE IF Len(t) = 4
             THEN /\ Len(cleaned) = 7
                  /\ cleaned[1] = "#"
                  /\ \A k \in 1..3 : cleaned[2 * k] = t[k + 1]
                                     /\ cleaned[2 * k + 1] = t[k + 1]
        ELSE cleaned = t

\* C7 witness: " #aba" was cleaned to "#aabbaa".
C7_Witness ==
    /\ pc = "cleaned"
    /\ color = <<" ", "#", "a", "b", "a">>
    /\ cleaned = <<"#", "a", "a", "b", "b", "a", "a">>

\* C21: cleanColor is idempotent and its result is fully trimmed: cleaning
\* the result again gives the result, and the result has no whitespace at its
\* start or at its end, for every input, whitespace inside included.
C21_CleanColorIdempotent ==
    pc = "cleaned" =>
        /\ cleanColor(cleaned) = cleaned
        /\ cleaned # <<>> =>
              ~IsSpace(cleaned[1]) /\ ~IsSpace(cleaned[Len(cleaned)])

(***************************************************************************)
(* Claims about cleanFilename (checked under SpecName).                    *)
(***************************************************************************)
ReplacedSet == {" ", "/", "\\", ":", "*", "?", "\"", "<", ">", "|"}

\* the name without its parentheses, each listed character turned into '_'
\* and every other character lowercased
MappedName ==
    LET kept == SelectSeq(name, LAMBDA c : c \notin {"(", ")"}) IN
    [i \in 1..Len(kept) |->
        IF kept[i] \in ReplacedSet THEN "_" ELSE LowerChar(kept[i])]

\* the places of MappedName that stay: every character but '_', and the first
\* '_' of a run that has another character before it and after it
KeptPlaces ==
    LET m == MappedName IN
    {i \in 1..Len(m) :
        \/ m[i] # "_"
        \/ /\ i > 1
           /\ m[i - 1] # "_"
           /\ \E j \in (i + 1)..Len(m) : m[j] # "_"}

\* C9: cleanFilename replaces each listed character by '_', removes the
\* parentheses, lowercases, collapses every run of '_' into one and trims
\* '_' at both ends; every other character is preserved, the result holds no
\* listed character, no parenthesis, no "__" and no '_' at either end, and
\* "My Theme (Pro)!! v2" becomes "my_theme_pro!!_v2".
C9_CleanFilename ==
    pc = "named" =>
        /\ Len(filename) = Cardinality(KeptPlaces)
        /\ \A i \in KeptPlaces :
              filename[Cardinality({j \in KeptPlaces : j <= i})] = MappedName[i]
        /\ \A i \in 1..Len(filename) :
              /\ filename[i] \notin ReplacedSet \cup {"(", ")"}
              /\ i < Len(filename) => ~(filename[i] = "_" /\ filename[i + 1] = "_")
        /\ filename # <<>> => filename[1] # "_" /\ filename[Len(filename)] # "_"
        /\ name = ExampleName =>
              filename = <<"m", "y", "_", "t", "h", "e", "m", "e", "_", "p", "r",
                           "o", "!", "!", "_", "v", "2">>

\* C9 witness: "My Theme (Pro)!! v2" was sanitized to "my_theme_pro!!_v2".
C9_Witness ==
    /\ pc = "named"
    /\ name = ExampleName
    /\ filename = <<"m", "y", "_", "t", "h", "e", "m", "e", "_", "p", "r",
                    "o", "!", "!", "_", "v", "2">>

(***************************************************************************)
(* Claims about the statements of cleanFilename (checked under             *)
(* SpecFilename).                                                          *)
(***************************************************************************)
\* C22: cleanFilename is idempotent, cleanFilename(cleanFilename(n)) =
\* cleanFilename(n) for every name n, and its loop that removes "__"
\* terminates for every input: every iteration shortens the name, and every
\* call reaches its return.
C22_IdempotentAndLoopTerminates ==
    /\ [](pc = "named" =>
            /\ filename = cleanFilename(name)
            /\ cleanFilename(filename) = filename)
    /\ [][pc = "loop" /\ pc' = "loop" => Len(filename') < Len(filename)]_vars
    /\ <>(pc = "named")

\* C22 witness: "a___b", which takes two iterations of the loop, was
\* sanitized to "a_b".
C22_Witness ==
    /\ pc = "named"
    /\ name = <<"a", "_", "_", "_", "b">>
    /\ filename = <<"a", "_", "b">>

(***************************************************************************)
(* The conversion command, Model.convertTheme: load the selected theme     *)
(* file, load the extension's metadata, convert, save.                     *)
(***************************************************************************)
\* yaml.Marshal of a WarpTheme: its fields in the order of the struct, each
\* under its yaml name
Marshal(theme) ==
     <<
       [key |-> "accent", value |-> theme.Accent],
       [key |-> "background", value |-> theme.Background],
       [key |-> "details", value |-> theme.Details],
       [key |-> "foreground", value |-> theme.Foreground],
       [key |-> "terminal_colors.normal.black", value |-> theme.TerminalColors.Normal.Black],
       [key |-> "terminal_colors.normal.red", value |-> theme.TerminalColors.Normal.Red],
       [key |-> "terminal_colors.normal.green", value |-> theme.TerminalColors.Normal.Green],
       [key |-> "terminal_colors.normal.yellow", value |-> theme.TerminalColors.Normal.Yellow],
       [key |-> "terminal_colors.normal.blue", value |-> theme.TerminalColors.Normal.Blue],
       [key |-> "terminal_colors.normal.magenta", value |-> theme.TerminalColors.Normal.Magenta],
       [key |-> "terminal_colors.normal.cyan", value |-> theme.TerminalColors.Normal.Cyan],
       [key |-> "terminal_colors.normal.white", value |-> theme.TerminalColors.Normal.White],
       [key |-> "terminal_colors.bright.black", value |-> theme.TerminalColors.Bright.Black],
       [key |-> "terminal_colors.bright.red", value |-> theme.TerminalColors.Bright.Red],
       [key |-> "terminal_colors.bright.green", value |-> theme.TerminalColors.Bright.Green],
       [key |-> "terminal_colors.bright.yellow", value |-> theme.TerminalColors.Bright.Yellow],
       [key |-> "terminal_colors.bright.blue", value |-> theme.TerminalColors.Bright.Blue],
       [key |-> "terminal_colors.bright.magenta", value |-> theme.TerminalColors.Bright.Magenta],
       [key |-> "terminal_colors.bright.cyan", value |-> theme.TerminalColors.Bright.Cyan],
       [key |-> "terminal_colors.bright.white", value |-> theme.TerminalColors.Bright.White] >>

\* the values of runtime.GOOS tried; "freebsd" stands for every system the
\* switch of getWarpThemesPath has no case for
Platforms == {"windows", "darwin", "linux", "freebsd"}

\* the values of XDG_DATA_HOME tried: unset (or empty), or a directory
XdgDataHomes == {"", "/data"}

\* getWarpThemesPath: the Warp themes directory of the platform, as the
\* segments filepath.Join is given ("~" is the home directory)
getWarpThemesPath(os, xdg) ==
    CASE os = "windows" -> <<"~", ".warp", "themes", "standard">>
      [] os = "darwin" -> <<"~", ".warp", "themes">>
      [] os = "linux" ->
            IF xdg # ""
            THEN <<xdg, "warp-terminal", "themes", "standard">>
            ELSE <<"~", ".local", "share", "warp-terminal", "themes", "standard">>
      [] OTHER -> <<"~", ".warp", "themes", "standard">>

\* the directory SaveWarpTheme writes to, under the home directory
themesDir == <<"~", ".warp", "themes">>

\* the file SaveWarpTheme writes a theme called n to
themePath(n) == [dir |-> themesDir, file |-> cleanFilename(n) \o <<".", "y", "a", "m", "l">>]

\* the themes directory after data is written to path
WriteFile(dirFiles, path, data) ==
    LET before == {f \in dirFiles : f.path = path}
        writes == IF before = {} THEN 1 ELSE (CHOOSE f \in before : TRUE).writes + 1
    IN  {f \in dirFiles : f.path # path}
        \cup {[path |-> path, data |-> data, writes |-> writes]}

\* the names of the theme files tried: "One", "My Theme" and "( )"
ThemeNames ==
    { SomeName,
      <<"M", "y", " ", "T", "h", "e", "m", "e">>,
      <<"(", " ", ")">> }

\* the colour maps of the theme files tried
ThemeColorMaps ==
    { <<>>,
      [k \in {"editor.background", "focusBorder"} |->
          IF k = "focusBorder" THEN <<"#", "a", "b", "c">>
          ELSE <<"#", "1", "1", "2", "2", "3", "3", "f", "f">>],
      [k \in {"terminal.ansiBlue", "terminal.ansiBrightBlue"} |->
          IF k = "terminal.ansiBlue" THEN <<"b", "l", "u", "e">> ELSE <<>>] }

\* what LoadExtensionMetadata may return: nothing, or the package.json found
Metadatas ==
    { NoMetadata,
      [loaded |-> TRUE, Publisher |-> <<"f", "o", "o">>],
      [loaded |-> TRUE, Publisher |-> <<"b", "a", "r">>] }

Init ==
    /\ pc = "load"
    /\ themeFile \in [Name : ThemeNames, Type : {"dark", "light"},
                      Colors : ThemeColorMaps]
    /\ vscodeTheme = NoTheme
    /\ extensionMetadata = NoMetadata
    /\ warpTheme = NoWarpTheme
    /\ files = {}
    /\ msg = "none"
    /\ run = 1
    /\ color = NoString
    /\ cleaned = NoString
    /\ name = NoString
    /\ filename = NoString
    /\ goos \in Platforms
    /\ xdgDataHome \in XdgDataHomes
    /\ filePath = NoString
    /\ extensionName = NoString
    /\ DiscoveryIdle
    /\ MainIdle

\* LoadVSCodeTheme: the file is read and parsed, or the command ends with
\* an error
LoadVSCodeTheme ==
    /\ pc = "load"
    /\ \E ok \in BOOLEAN :
          IF ok
          THEN /\ vscodeTheme' = themeFile
               /\ pc' = "metadata"
               /\ msg' = msg
          ELSE /\ msg' = "Failed to load theme"
               /\ pc' = "done"
               /\ vscodeTheme' = vscodeTheme
    /\ UNCHANGED <<color, cleaned, name, filename>>
    /\ UNCHANGED <<themeFile, extensionMetadata, warpTheme, files, run>>
    /\ UNCHANGED programVars

\* LoadExtensionMetadata: best effort, a failure leaves the metadata nil
LoadExtensionMetadata ==
    /\ pc = "metadata"
    /\ extensionMetadata' \in Metadatas
    /\ pc' = "convert"
    /\ UNCHANGED <<color, cleaned, name, filename>>
    /\ UNCHANGED <<themeFile, vscodeTheme, warpTheme, files, msg, run>>
    /\ UNCHANGED programVars

\* SaveWarpTheme: the home directory, the themes directory or the write may
\* fail, which leaves the directory as it was; otherwise the marshalled theme
\* is written under the cleaned name
SaveWarpTheme ==
    /\ pc = "converted"
    /\ \E outcome \in {"no home directory", "no themes directory",
                       "write failed", "written"} :
          IF outcome = "written"
          THEN /\ files' = WriteFile(files, themePath(vscodeTheme.Name),
                                     Marshal(warpTheme))
               /\ msg' = "converted"
          ELSE /\ files' = files
               /\ msg' = "Failed to save theme"
    /\ pc' = "done"
    /\ UNCHANGED <<color, cleaned, name, filename>>
    /\ UNCHANGED <<themeFile, vscodeTheme, extensionMetadata, warpTheme, run>>
    /\ UNCHANGED programVars

\* the program is run again and the same theme file selected
RunAgain ==
    /\ pc = "done"
    /\ run < MaxRuns
    /\ run' = run + 1
    /\ pc' = "load"
    /\ vscodeTheme' = NoTheme
    /\ extensionMetadata' = NoMetadata
    /\ warpTheme' = NoWarpTheme
    /\ msg' = "none"
    /\ UNCHANGED <<color, cleaned, name, filename>>
    /\ UNCHANGED <<themeFile, files>>
    /\ UNCHANGED programVars

Next ==
    \/ LoadVSCodeTheme
    \/ LoadExtensionMetadata
    \/ ConvertCall
    \/ SaveWarpTheme
    \/ RunAgain

Spec == Init /\ [][Next]_vars

YamlExtension == <<".", "y", "a", "m", "l">>

\* C10: SaveWarpTheme never writes a file whose name is only the extension
\* ".yaml": a theme name that sanitizes to the empty string is handled
\* before it is used as a file name.
C10_NoBareExtensionFile ==
    \A f \in files : f.path.file # YamlExtension

\* C11: on every platform and for every XDG_DATA_HOME setting, the file a
\* converted theme is written to is the directory getWarpThemesPath returns
\* joined with cleanFilename(source theme name) + ".yaml".
C11_WrittenUnderWarpThemesPath ==
    \A f \in files :
       f.path = [dir |-> getWarpThemesPath(goos, xdgDataHome),
                 file |-> cleanFilename(themeFile.Name) \o YamlExtension]

(***************************************************************************)
(* Paths and the extension label, extractExtensionName.                    *)
(***************************************************************************)
\* filepath.Separator
Separator(os) == IF os = "windows" THEN "\\" ELSE "/"

\* strings.Split(s, sep) for a one-character sep
RECURSIVE Split(_, _)
Split(s, sep) ==
    IF \A i \in 1..Len(s) : s[i] # sep THEN <<s>>
    ELSE LET i == CHOOSE i \in 1..Len(s) :
                     s[i] = sep /\ \A j \in 1..(i - 1) : s[j] # sep
         IN  <<SubSeq(s, 1, i - 1)>> \o Split(SubSeq(s, i + 1, Len(s)), sep)

\* strings.LastIndex(s, c) for a one-character c, counted from 1; 0 stands
\* for Go's -1
LastIndex(s, c) ==
    IF \A i \in 1..Len(s) : s[i] # c THEN 0
    ELSE CHOOSE i \in 1..Len(s) : s[i] = c /\ \A j \in (i + 1)..Len(s) : s[j] # c

Digits == {"0", "1", "2", "3", "4", "5", "6", "7", "8", "9"}

\* unicode.ToTitle of an ASCII character
UpperChar(c) ==
    IF \E i \in 1..26 : LowerCase[i] = c
    THEN UpperCase[CHOOSE i \in 1..26 : LowerCase[i] = c]
    ELSE c

\* the isSeparator of strings.Title: ASCII letters, digits and the underscore
\* are not separators, every other ASCII character is
isSeparator(c) ==
    ~ \/ c \in Digits
      \/ \E i \in 1..26 : LowerCase[i] = c \/ UpperCase[i] = c
      \/ c = "_"

\* strings.Title(s): the character after a separator (and the first one) is
\* mapped to title case, the others are kept
Title(s) ==
    [i \in 1..Len(s) |->
        IF isSeparator(IF i = 1 THEN " " ELSE s[i - 1])
        THEN UpperChar(s[i]) ELSE s[i]]

extensions == <<"e", "x", "t", "e", "n", "s", "i", "o", "n", "s">>

\* the extension directory without its version: everything after the last
\* dash is removed if it looks like a version (lines 138-145)
stripVersion(extensionDir) ==
    LET lastDash == LastIndex(extensionDir, "-")
        possibleVersion == SubSeq(extensionDir, lastDash + 1, Len(extensionDir))
    IN  IF /\ lastDash # 0
           /\ Len(possibleVersion) > 0
           /\ (possibleVersion[1] \in Digits \/ Contains(possibleVersion, <<".">>))
        THEN SubSeq(extensionDir, 1, lastDash - 1)
        ELSE extensionDir

\* the readable name of an extension directory (lines 147-155)
readableName(extensionDir) ==
    LET parts == Split(extensionDir, ".")
    IN  IF Contains(extensionDir, <<".">>) /\ Len(parts) = 2
        THEN Title(ReplaceAll(parts[2], <<"-">>, <<" ">>))
             \o <<" ", "b", "y", " ">> \o Title(parts[1])
        ELSE Title(ReplaceAll(extensionDir, <<"-">>, <<" ">>))

\* extractExtensionName with the version kept (a variant that is not the
\* code's)
extractExtensionNameKeepVersion(p, os) ==
    LET parts == Split(p, Separator(os))
        found == {i \in 1..Len(parts) : parts[i] = extensions /\ i + 1 <= Len(parts)}
    IN  IF found = {} THEN <<>>
        ELSE LET i == CHOOSE i \in found : \A j \in found : i <= j
             IN  readableName(parts[i + 1])

\* extractExtensionName: the label of the extension a theme file belongs to,
\* from the first part "extensions" of its path that has a part after it
extractExtensionName(p, os) ==
    LET parts == Split(p, Separator(os))
        found == {i \in 1..Len(parts) : parts[i] = extensions /\ i + 1 <= Len(parts)}
    IN  IF found = {} THEN <<>>
        ELSE LET i == CHOOSE i \in found : \A j \in found : i <= j
             IN  readableName(stripVersion(parts[i + 1]))

\* strings.Join(parts, sep), which is what filepath.Join does with parts that
\* need no cleaning
RECURSIVE Join(_, _)
Join(parts, sep) ==
    IF parts = <<>> THEN <<>>
    ELSE IF Len(parts) = 1 THEN parts[1]
    ELSE parts[1] \o <<sep>> \o Join(Tail(parts), sep)

DirAlphabet == {"a", "-", ".", "1"}

\* "foo.bar-1.2.3"
ExampleDir == <<"f", "o", "o", ".", "b", "a", "r", "-", "1", ".", "2", ".", "3">>

\* "foo.bar-1.2.3", "ms-vscode.theme-dark", "one_dark-pro-v2", "x.fooBar" and
\* "a.b.c-0"
DirSamples ==
    { ExampleDir,
      <<"m", "s", "-", "v", "s", "c", "o", "d", "e", ".", "t", "h", "e", "m",
        "e", "-", "d", "a", "r", "k">>,
      <<"o", "n", "e", "_", "d", "a", "r", "k", "-", "p", "r", "o", "-", "v", "2">>,
      <<"x", ".", "f", "o", "o", "B", "a", "r">>,
      <<"a", ".", "b", ".", "c", "-", "0">> }

ExtensionDirs == StringsUpTo(DirAlphabet, MaxDirLen) \cup DirSamples

\* the paths tried, as their parts: an extension directory d below
\* "extensions", a path without "extensions", "extensions" as the last part
\* or as a piece of a longer part, and two parts "extensions"
PathShapes(d) ==
    { <<<<>>, <<"h">>, extensions, d, <<"t">>, <<"a">>>>,
      <<<<>>, <<"h">>, extensions, d>>,
      <<<<>>, <<"h">>, d, <<"a">>>>,
      <<<<>>, <<"h">>, d, extensions>>,
      <<<<>>, <<"m", "y">> \o extensions, d>>,
      <<<<>>, extensions, d, extensions, <<"x", ".", "y">>>> }

InitLabel ==
    /\ pc = "extractExtensionName"
    /\ goos \in {"linux", "windows"}
    /\ xdgDataHome = ""
    /\ \E d \in ExtensionDirs : \E parts \in PathShapes(d) :
          filePath = Join(parts, Separator(goos))
    /\ extensionName = NoString
    /\ color = NoString
    /\ cleaned = NoString
    /\ name = NoString
    /\ filename = NoString
    /\ CommandIdle
    /\ DiscoveryIdle
    /\ MainIdle

ExtractExtensionNameCall ==
    /\ pc = "extractExtensionName"
    /\ extensionName' = extractExtensionName(filePath, goos)
    /\ pc' = "extracted"
    /\ UNCHANGED <<color, cleaned, name, filename, goos, xdgDataHome, filePath>>
    /\ UNCHANGED commandVars
    /\ UNCHANGED <<discoveryVars, mainVars>>

NextLabel == ExtractExtensionNameCall

SpecLabel == InitLabel /\ [][NextLabel]_vars

(***************************************************************************)
(* Claims about extractExtensionName (checked under SpecLabel).            *)
(***************************************************************************)
\* the parts of the path handed to extractExtensionName
PathParts == Split(filePath, Separator(goos))

\* the places of "extensions" among the parts that have a part after them
ExtensionsAt == {i \in 1..(Len(PathParts) - 1) : PathParts[i] = extensions}

\* the part after the first "extensions"
ExtensionDir == PathParts[(CHOOSE i \in ExtensionsAt : \A j \in ExtensionsAt : i <= j) + 1]

\* the places of c in s
PlacesOf(s, c) == {k \in 1..Len(s) : s[k] = c}

\* what follows the last '-' of d
AfterLastDash(d) ==
    LET last == CHOOSE k \in PlacesOf(d, "-") : \A j \in PlacesOf(d, "-") : j <= k
    IN  SubSeq(d, last + 1, Len(d))

\* d without its last '-' and what follows it
BeforeLastDash(d) ==
    LET last == CHOOSE k \in PlacesOf(d, "-") : \A j \in PlacesOf(d, "-") : j <= k
    IN  SubSeq(d, 1, last - 1)

\* d, without the part after its last '-' when that part starts with a digit
\* or contains a '.'
Remainder(d) ==
    IF /\ PlacesOf(d, "-") # {}
       /\ \/ AfterLastDash(d) # <<>> /\ Head(AfterLastDash(d)) \in Digits
          \/ PlacesOf(AfterLastDash(d), ".") # {}
    THEN BeforeLastDash(d)
    ELSE d

\* s with each '-' replaced by a space
Spaced(s) == [k \in 1..Len(s) |-> IF s[k] = "-" THEN " " ELSE s[k]]

\* C15: extractExtensionName takes the part following the first part
\* "extensions", strips what follows its last '-' when that starts with a
\* digit or contains a '.', and returns "<Extension> by <Publisher>", both
\* title-cased, when the remainder contains exactly one '.', otherwise the
\* remainder with '-' replaced by spaces, title-cased; it returns the empty
\* label when no part "extensions" is followed by a part.
C15_ExtensionLabel ==
    pc = "extracted" =>
       IF ExtensionsAt = {} THEN extensionName = <<>>
       ELSE LET rem == Remainder(ExtensionDir)
                dots == PlacesOf(rem, ".")
            IN  IF Cardinality(dots) = 1
                THEN LET dot == CHOOSE k \in dots : TRUE
                     IN  extensionName =
                            Title(Spaced(SubSeq(rem, dot + 1, Len(rem))))
                            \o <<" ", "b", "y", " ">>
                            \o Title(SubSeq(rem, 1, dot - 1))
                ELSE extensionName = Title(Spaced(rem))

\* C15 witness: the label of ".../extensions/foo.bar-1.2.3/..." is
\* "Bar by Foo".
C15_Witness ==
    /\ pc = "extracted"
    /\ ExtensionsAt # {}
    /\ ExtensionDir = ExampleDir
    /\ extensionName = <<"B", "a", "r", " ", "b", "y", " ", "F", "o", "o">>

(***************************************************************************)
(* Theme discovery, DiscoverVSCodeThemes: the extensions directory is      *)
(* walked and the callback is called for every entry met.                  *)
(***************************************************************************)
\* toLower of the paths file: the ASCII upper-case letters to lower case
toLower(s) == [i \in 1..Len(s) |-> LowerChar(s[i])]

findSubstring(str, substr) ==
    \E i \in 0..(Len(str) - Len(substr)) :
       SubSeq(str, i + 1, i + Len(substr)) = substr

containsString(str, substr) ==
    Len(str) >= Len(substr) /\ findSubstring(str, substr)

containsCaseInsensitive(str, substr) ==
    containsString(toLower(str), toLower(substr))

\* contains: case-insensitive on Windows
contains(str, substr, os) ==
    IF os = "windows" THEN containsCaseInsensitive(str, substr)
    ELSE containsString(str, substr)

hasSuffix(str, suffix) ==
    /\ Len(str) >= Len(suffix)
    /\ SubSeq(str, Len(str) - Len(suffix) + 1, Len(str)) = suffix

\* the literal "themes"
themesName == <<"t", "h", "e", "m", "e", "s">>

hasThemesAtEnd(p, os) ==
    \/ hasSuffix(p, <<Separator(os)>> \o themesName)
    \/ hasSuffix(p, <<Separator(os)>> \o themesName \o <<Separator(os)>>)

\* isThemesDirectory with a plain substring test (a variant that is not the
\* code's)
isThemesDirectoryAnywhere(p, os) ==
    contains(p, themesName, os)

\* isThemesDirectory: the path holds "themes" between two separators, or ends
\* with it
isThemesDirectory(p, os) ==
    \/ contains(p, <<Separator(os)>> \o themesName \o <<Separator(os)>>, os)
    \/ hasThemesAtEnd(p, os)

\* strings.HasSuffix
HasSuffix(s, suffix) ==
    /\ Len(s) >= Len(suffix)
    /\ SubSeq(s, Len(s) - Len(suffix) + 1, Len(s)) = suffix

\* strings.TrimSuffix
TrimSuffix(s, suffix) ==
    IF HasSuffix(s, suffix) THEN SubSeq(s, 1, Len(s) - Len(suffix)) ELSE s

\* filepath.Base of a path that does not end with a separator
Base(p, os) ==
    LET parts == Split(p, Separator(os)) IN parts[Len(parts)]

dotJson == <<".", "j", "s", "o", "n">>

\* the ThemeInfo of the calls that return none
NoThemeInfo == [Name |-> <<>>, DisplayName |-> <<>>, Path |-> <<>>, Type |-> ""]

\* parseThemeFile that accepts a document without a name (a variant that is
\* not the code's)
parseThemeFileAnyName(p, doc, os) ==
    IF ~doc.readable \/ doc.json # "fits"
    THEN [err |-> TRUE, info |-> NoThemeInfo]
    ELSE [err |-> FALSE,
          info |-> [Name |-> TrimSuffix(Base(p, os), dotJson),
                    DisplayName |-> doc.Name,
                    Path |-> p,
                    Type |-> doc.Type]]

\* parseThemeFile with the extension label left out of the display name (a
\* variant that is not the code's)
parseThemeFileNoLabel(p, doc, os) ==
    IF ~doc.readable \/ doc.json # "fits" \/ doc.Name = <<>>
    THEN [err |-> TRUE, info |-> NoThemeInfo]
    ELSE [err |-> FALSE,
          info |-> [Name |-> TrimSuffix(Base(p, os), dotJson),
                    DisplayName |-> doc.Name,
                    Path |-> p,
                    Type |-> doc.Type]]

\* parseThemeFile: the file at p, which holds doc, is read (os.ReadFile) and
\* decoded into a VSCodeTheme (json.Unmarshal, which fails on text that is
\* not JSON and on JSON with a value of the wrong type for a field); a
\* document without a name is an error
parseThemeFile(p, doc, os) ==
    IF ~doc.readable THEN [err |-> TRUE, info |-> NoThemeInfo]
    ELSE IF doc.json # "fits" THEN [err |-> TRUE, info |-> NoThemeInfo]
    ELSE IF doc.Name = <<>> THEN [err |-> TRUE, info |-> NoThemeInfo]
    ELSE LET base == Base(p, os)
             extName == extractExtensionName(p, os)
             displayName ==
                IF extName # <<>>
                THEN doc.Name \o <<" ", "(">> \o extName \o <<")">>
                ELSE doc.Name
         IN  [err |-> FALSE,
              info |-> [Name |-> TrimSuffix(base, dotJson),
                        DisplayName |-> displayName,
                        Path |-> p,
                        Type |-> doc.Type]]

\* the callback with a traversal error handed on to WalkDir (a variant that
\* is not the code's)
walkDirFuncStrict(e, os) ==
    IF e.err THEN [err |-> TRUE, read |-> <<>>, found |-> <<>>]
    ELSE IF e.isDir \/ ~HasSuffix(ToLower(e.path), dotJson)
         THEN [err |-> FALSE, read |-> <<>>, found |-> <<>>]
    ELSE IF ~isThemesDirectory(e.path, os)
         THEN [err |-> FALSE, read |-> <<>>, found |-> <<>>]
    ELSE LET r == parseThemeFile(e.path, e.doc, os)
         IN  [err |-> FALSE, read |-> <<e.path>>,
              found |-> IF r.err THEN <<>> ELSE <<r.info>>]

\* the callback handed to filepath.WalkDir, called for entry e: the error it
\* returns (always nil), the path it handed to parseThemeFile and the
\* ThemeInfo it appended to themes, if any
walkDirFunc(e, os) ==
    IF e.err THEN [err |-> FALSE, read |-> <<>>, found |-> <<>>]
    ELSE IF e.isDir \/ ~HasSuffix(ToLower(e.path), dotJson)
         THEN [err |-> FALSE, read |-> <<>>, found |-> <<>>]
    ELSE IF ~isThemesDirectory(e.path, os)
         THEN [err |-> FALSE, read |-> <<>>, found |-> <<>>]
    ELSE LET r == parseThemeFile(e.path, e.doc, os)
         IN  [err |-> FALSE, read |-> <<e.path>>,
              found |-> IF r.err THEN <<>> ELSE <<r.info>>]

\* what a file holds: whether it can be read, whether its text decodes into a
\* VSCodeTheme ("fits"), is JSON with a value of the wrong type for a field
\* ("mistyped") or is not JSON ("malformed"), and the name and type decoded
ThemeDoc(n, t) == [readable |-> TRUE, json |-> "fits", Name |-> n, Type |-> t]

\* the document of an entry that is not a file
NoDoc == [readable |-> FALSE, json |-> "none", Name |-> <<>>, Type |-> ""]

\* the entries below the extensions directory that a walk may meet, in the
\* order WalkDir meets them
TreeEntries ==
    <<
       \* a.b (a directory that cannot be read)
       [rel |-> <<<<"a", ".", "b">>>>,
        isDir |-> TRUE, err |-> TRUE,
        doc |-> NoDoc],
       \* -1/themes/a.json
       [rel |-> <<<<"-", "1">>, themesName, <<"a", ".", "j", "s", "o", "n">>>>,
        isDir |-> FALSE, err |-> FALSE,
        doc |-> ThemeDoc(<<"T", "w", "o">>, "light")],
       \* foo.bar-1.2.3/Themes/a.json
       [rel |-> <<ExampleDir, <<"T", "h", "e", "m", "e", "s">>, <<"a", ".", "j", "s", "o", "n">>>>,
        isDir |-> FALSE, err |-> FALSE,
        doc |-> ThemeDoc(<<"C", "a", "p">>, "dark")],
       \* foo.bar-1.2.3/mythemes/a.json
       [rel |-> <<ExampleDir, <<"m", "y", "t", "h", "e", "m", "e", "s">>, <<"a", ".", "j", "s", "o", "n">>>>,
        isDir |-> FALSE, err |-> FALSE,
        doc |-> ThemeDoc(<<"M", "y">>, "dark")],
       \* foo.bar-1.2.3/package.json
       [rel |-> <<ExampleDir, <<"p", "a", "c", "k", "a", "g", "e", ".", "j", "s", "o", "n">>>>,
        isDir |-> FALSE, err |-> FALSE,
        doc |-> ThemeDoc(<<"f", "o", "o">>, "")],
       \* foo.bar-1.2.3/themes (a directory)
       [rel |-> <<ExampleDir, themesName>>,
        isDir |-> TRUE, err |-> FALSE,
        doc |-> NoDoc],
       \* foo.bar-1.2.3/themes/UP.JSON
       [rel |-> <<ExampleDir, themesName, <<"U", "P", ".", "J", "S", "O", "N">>>>,
        isDir |-> FALSE, err |-> FALSE,
        doc |-> ThemeDoc(<<"U", "p">>, "dark")],
       \* foo.bar-1.2.3/themes/bad.json
       [rel |-> <<ExampleDir, themesName, <<"b", "a", "d", ".", "j", "s", "o", "n">>>>,
        isDir |-> FALSE, err |-> FALSE,
        doc |-> [readable |-> TRUE, json |-> "malformed", Name |-> <<>>, Type |-> ""]],
       \* foo.bar-1.2.3/themes/dark.json
       [rel |-> <<ExampleDir, themesName, <<"d", "a", "r", "k", ".", "j", "s", "o", "n">>>>,
        isDir |-> FALSE, err |-> FALSE,
        doc |-> ThemeDoc(SomeName, "dark")],
       \* foo.bar-1.2.3/themes/locked.json
       [rel |-> <<ExampleDir, themesName, <<"l", "o", "c", "k", "e", "d", ".", "j", "s", "o", "n">>>>,
        isDir |-> FALSE, err |-> FALSE,
        doc |-> [readable |-> FALSE, json |-> "fits", Name |-> <<"L", "o", "c", "k">>, Type |-> "dark"]],
       \* foo.bar-1.2.3/themes/noname.json
       [rel |-> <<ExampleDir, themesName, <<"n", "o", "n", "a", "m", "e", ".", "j", "s", "o", "n">>>>,
        isDir |-> FALSE, err |-> FALSE,
        doc |-> ThemeDoc(<<>>, "dark")],
       \* foo.bar-1.2.3/themes/readme.md
       [rel |-> <<ExampleDir, themesName, <<"r", "e", "a", "d", "m", "e", ".", "m", "d">>>>,
        isDir |-> FALSE, err |-> FALSE,
        doc |-> ThemeDoc(<<"M", "d">>, "dark")],
       \* foo.bar-1.2.3/themes/typed.json
       [rel |-> <<ExampleDir, themesName, <<"t", "y", "p", "e", "d", ".", "j", "s", "o", "n">>>>,
        isDir |-> FALSE, err |-> FALSE,
        doc |-> [readable |-> TRUE, json |-> "mistyped", Name |-> <<"T", "y", "p", "e", "d">>, Type |-> "dark"]],
       \* foo.bar-1.2.3/themes/x.json (a directory)
       [rel |-> <<ExampleDir, themesName, <<"x", ".", "j", "s", "o", "n">>>>,
        isDir |-> TRUE, err |-> FALSE,
        doc |-> NoDoc],
       \* foo.bar-1.2.3/themes-old/a.json
       [rel |-> <<ExampleDir, <<"t", "h", "e", "m", "e", "s", "-", "o", "l", "d">>, <<"a", ".", "j", "s", "o", "n">>>>,
        isDir |-> FALSE, err |-> FALSE,
        doc |-> ThemeDoc(<<"O", "l", "d">>, "light")] >>

\* os.UserHomeDir, as the parts of the path
homeDir(os) == IF os = "windows" THEN <<<<"C", ":">>, <<"h">>>> ELSE <<<<>>, <<"h">>>>

\* getVSCodeExtensionsPath: home/.vscode/extensions on every platform
getVSCodeExtensionsPath(os) ==
    homeDir(os) \o <<<<".", "v", "s", "c", "o", "d", "e">>, extensions>>

\* the entries of seq at the places in S, from place i on
RECURSIVE Pick(_, _, _)
Pick(seq, S, i) ==
    IF i > Len(seq) THEN <<>>
    ELSE (IF i \in S THEN <<seq[i]>> ELSE <<>>) \o Pick(seq, S, i + 1)

\* the call WalkDir makes for an entry below the root
WalkEntry(e, os) ==
    [path |-> Join(getVSCodeExtensionsPath(os) \o e.rel, Separator(os)),
     isDir |-> e.isDir, err |-> e.err, doc |-> e.doc]

\* the calls WalkDir makes: one for the root, which is a directory or cannot
\* be read, and if it can one for each entry found below it (the calls for
\* the directories on the way to an entry are left out: the callback returns
\* at once for a directory)
Walks(os) ==
    LET root == Join(getVSCodeExtensionsPath(os), Separator(os))
    IN  { <<[path |-> root, isDir |-> TRUE, err |-> TRUE, doc |-> NoDoc]>> }
        \cup
        { <<[path |-> root, isDir |-> TRUE, err |-> FALSE, doc |-> NoDoc]>>
          \o [i \in 1..Cardinality(S) |-> WalkEntry(Pick(TreeEntries, S, 1)[i], os)] :
          S \in {T \in SUBSET (1..Len(TreeEntries)) : Cardinality(T) <= MaxEntries} }

InitDiscover ==
    /\ pc = "discover"
    /\ goos \in {"linux", "windows"}
    /\ xdgDataHome = ""
    /\ walk \in Walks(goos)
    /\ visited = 0
    /\ reads = <<>>
    /\ themes = <<>>
    /\ discoverErr = "none"
    /\ filePath = NoString
    /\ extensionName = NoString
    /\ color = NoString
    /\ cleaned = NoString
    /\ name = NoString
    /\ filename = NoString
    /\ CommandIdle
    /\ MainIdle

\* getVSCodeExtensionsPath: without a home directory DiscoverVSCodeThemes
\* returns an error
GetVSCodeExtensionsPath ==
    /\ pc = "discover"
    /\ \E homeKnown \in BOOLEAN :
          IF homeKnown
          THEN /\ pc' = "walk"
               /\ discoverErr' = discoverErr
          ELSE /\ pc' = "returned"
               /\ discoverErr' = "failed to get VS Code extensions path"
    /\ UNCHANGED <<color, cleaned, name, filename, filePath, extensionName>>
    /\ UNCHANGED <<platformVars, walk, visited, reads, themes>>
    /\ UNCHANGED <<commandVars, mainVars>>

\* WalkDir calls the callback for the next entry; an error returned by the
\* callback ends the walk and DiscoverVSCodeThemes returns it
WalkDirFunc ==
    /\ pc = "walk"
    /\ visited < Len(walk)
    /\ LET r == walkDirFunc(walk[visited + 1], goos)
       IN  IF r.err
           THEN /\ pc' = "returned"
                /\ discoverErr' = "failed to walk extensions directory"
                /\ themes' = <<>>
                /\ reads' = reads
           ELSE /\ pc' = pc
                /\ discoverErr' = discoverErr
                /\ themes' = themes \o r.found
                /\ reads' = reads \o r.read
    /\ visited' = visited + 1
    /\ UNCHANGED <<color, cleaned, name, filename, filePath, extensionName>>
    /\ UNCHANGED <<platformVars, walk>>
    /\ UNCHANGED <<commandVars, mainVars>>

\* the walk is over: DiscoverVSCodeThemes returns themes and no error
WalkDirReturn ==
    /\ pc = "walk"
    /\ visited = Len(walk)
    /\ pc' = "returned"
    /\ discoverErr' = "nil"
    /\ UNCHANGED <<color, cleaned, name, filename, filePath, extensionName>>
    /\ UNCHANGED <<platformVars, walk, visited, reads, themes>>
    /\ UNCHANGED <<commandVars, mainVars>>

NextDiscover ==
    \/ GetVSCodeExtensionsPath
    \/ WalkDirFunc
    \/ WalkDirReturn

SpecDiscover == InitDiscover /\ [][NextDiscover]_vars

(***************************************************************************)
(* Claims about discovery (checked under SpecDiscover).                    *)
(***************************************************************************)
\* the entries the callback has been called for
VisitedEntries == {walk[i] : i \in 1..visited}

\* the entry's file was handed to parseThemeFile: it was taken as a candidate
WasRead(e) == \E k \in 1..Len(reads) : reads[k] = e.path

\* the path ends in ".json", compared without regard to case
EndsInJson(p) ==
    /\ Len(p) >= 5
    /\ \A k \in 1..5 : LowerChar(p[Len(p) - 5 + k]) = dotJson[k]

\* the segments of a path that have a separator on both sides
InnerSegments(p) ==
    LET parts == Split(p, Separator(goos))
    IN  {parts[k] : k \in 2..(Len(parts) - 1)}

\* C12 as the specification states it: a visited entry is a candidate if and
\* only if it is a regular file whose path ends in ".json", compared
\* case-insensitively, and has a segment exactly named "themes".
C12_CandidateIffExactThemesSegment ==
    \A e \in VisitedEntries :
       WasRead(e) <=> /\ ~e.err
                      /\ ~e.isDir
                      /\ EndsInJson(e.path)
                      /\ \E seg \in InnerSegments(e.path) : seg = themesName

\* the segment is named "themes": exactly, or on Windows without regard to
\* the case of ASCII letters
NamedThemes(seg) ==
    IF goos = "windows"
    THEN [k \in 1..Len(seg) |-> LowerChar(seg[k])] = themesName
    ELSE seg = themesName

\* C12: a visited entry is a candidate if and only if it is a regular file
\* whose path ends in ".json", compared case-insensitively, and has a
\* segment between separators named "themes", compared exactly except on
\* Windows, where the case of letters is ignored; a segment that only
\* contains "themes" does not qualify and a directory never does.
C12_Candidates ==
    \A e \in VisitedEntries :
       WasRead(e) <=> /\ ~e.err
                      /\ ~e.isDir
                      /\ EndsInJson(e.path)
                      /\ \E seg \in InnerSegments(e.path) : NamedThemes(seg)

\* C12 witness: the walk is over; a file in a themes directory was taken, a
\* file in "mythemes" was not, and neither was a directory "x.json" inside
\* a themes directory.
C12_Witness ==
    /\ pc = "returned"
    /\ discoverErr = "nil"
    /\ \E e \in VisitedEntries :
          /\ WasRead(e)
          /\ themesName \in InnerSegments(e.path)
    /\ \E e \in VisitedEntries :
          /\ ~WasRead(e)
          /\ ~e.isDir
          /\ EndsInJson(e.path)
          /\ <<"m", "y">> \o themesName \in InnerSegments(e.path)
    /\ \E e \in VisitedEntries :
          /\ ~WasRead(e)
          /\ e.isDir
          /\ ~e.err
          /\ EndsInJson(e.path)
          /\ themesName \in InnerSegments(e.path)

\* the calls made so far, in the order of the walk
VisitedSeq == SubSeq(walk, 1, visited)

\* a candidate that can be read, is JSON and has a name
ListedAsStated(e) ==
    /\ WasRead(e)
    /\ e.doc.readable
    /\ e.doc.json # "malformed"
    /\ e.doc.Name # <<>>

\* a candidate that can be read, decodes into a theme document and has a
\* name
Listed(e) ==
    /\ WasRead(e)
    /\ e.doc.readable
    /\ e.doc.json = "fits"
    /\ e.doc.Name # <<>>

\* C13 as the specification states it: the catalog holds exactly one entry,
\* in traversal order, for each candidate that can be read, parses as JSON
\* and has a non-empty name, and none for any other candidate.
C13_OneEntryPerJsonCandidate ==
    pc \in {"walk", "returned"} /\ discoverErr # "failed to get VS Code extensions path" =>
       LET listed == SelectSeq(VisitedSeq, ListedAsStated)
       IN  /\ Len(themes) = Len(listed)
           /\ \A k \in 1..Len(themes) : themes[k].Path = listed[k].path

\* C13: the catalog holds exactly one entry, in traversal order, for each
\* candidate that can be read, decodes into a theme document (it is JSON
\* and its values have the types of the document's fields) and has a
\* non-empty name, and no entry for a candidate that is unreadable,
\* malformed, mistyped or nameless.
C13_OneEntryPerValidCandidate ==
    pc \in {"walk", "returned"} /\ discoverErr # "failed to get VS Code extensions path" =>
       LET listed == SelectSeq(VisitedSeq, Listed)
       IN  /\ Len(themes) = Len(listed)
           /\ \A k \in 1..Len(themes) : themes[k].Path = listed[k].path

\* C13 witness: a tree with the valid theme foo.bar-1.2.3/themes/dark.json,
\* the malformed bad.json beside it and the valid package.json outside any
\* themes directory gave a catalog of one entry, "One (Bar by Foo)".
C13_Witness ==
    /\ pc = "returned"
    /\ discoverErr = "nil"
    /\ \E e \in VisitedEntries : WasRead(e) /\ e.doc.json = "malformed"
    /\ \E e \in VisitedEntries :
          /\ ~WasRead(e)
          /\ ~e.isDir
          /\ e.doc.json = "fits"
          /\ e.doc.Name # <<>>
          /\ InnerSegments(e.path) \cap {themesName} = {}
    /\ Len(themes) = 1
    /\ themes[1].DisplayName = SomeName \o <<" ", "(", "B", "a", "r", " ", "b", "y", " ", "F", "o", "o", ")">>

\* a theme file the walk can reach and parseThemeFile accepts
ValidTheme(e) ==
    /\ ~e.err
    /\ ~e.isDir
    /\ EndsInJson(e.path)
    /\ \E seg \in InnerSegments(e.path) : NamedThemes(seg)
    /\ e.doc.readable
    /\ e.doc.json = "fits"
    /\ e.doc.Name # <<>>

\* C14: a traversal error, on the root or below it, never aborts the scan
\* and never surfaces: once the home directory is known DiscoverVSCodeThemes
\* returns no error, it returns only after the callback was called for
\* every entry, and every valid theme file of the walk, those met after an
\* error too, is in the catalog it returns.
C14_TraversalErrorsSwallowed ==
    /\ discoverErr # "failed to walk extensions directory"
    /\ pc = "returned" /\ discoverErr = "nil" =>
          /\ visited = Len(walk)
          /\ \A i \in 1..Len(walk) :
                ValidTheme(walk[i]) => \E k \in 1..Len(themes) : themes[k].Path = walk[i].path

\* C14 witness: the walk met a directory it could not read, went on to a
\* valid theme file after it, and returned that theme and no error.
C14_Witness ==
    /\ pc = "returned"
    /\ discoverErr = "nil"
    /\ \E i \in 2..Len(walk) : \E j \in (i + 1)..Len(walk) :
          /\ walk[i].err
          /\ ValidTheme(walk[j])
          /\ \E k \in 1..Len(themes) : themes[k].Path = walk[j].path

\* the entries of the walk that the catalog lists, in order
ListedEntries == SelectSeq(VisitedSeq, Listed)

\* the display name of a theme called n found at path p
DisplayNameOf(n, p) ==
    LET label == extractExtensionName(p, goos)
    IN  IF label = <<>> THEN n
        ELSE n \o <<" ", "(">> \o label \o <<")">>

\* the last segment of a path
BaseName(p) ==
    LET parts == Split(p, Separator(goos)) IN parts[Len(parts)]

\* C16 as the specification states it: the display name of a catalog entry
\* is the theme's name alone, or "<themeName> (<extensionLabel>)" when a
\* label can be derived; its identifier is the file's base name without the
\* ".json" suffix the file was matched by; its path is the visited path and
\* its type tag the document's.
C16_EntryFieldsAsStated ==
    /\ Len(themes) = Len(ListedEntries)
    /\ \A k \in 1..Len(themes) :
          LET e == ListedEntries[k]
              base == BaseName(e.path)
          IN  /\ themes[k].DisplayName = DisplayNameOf(e.doc.Name, e.path)
              /\ themes[k].Name = SubSeq(base, 1, Len(base) - 5)
              /\ themes[k].Path = e.path
              /\ themes[k].Type = e.doc.Type

\* C16: the display name of a catalog entry is the theme's name alone when
\* no label can be derived from its path, or "<themeName> (<label>)" when
\* one can; its identifier is the file's base name without a trailing
\* ".json" in lower case (a suffix in another case, as in "UP.JSON", is
\* kept); its path is the visited path and its type tag the document's.
C16_EntryFields ==
    /\ Len(themes) = Len(ListedEntries)
    /\ \A k \in 1..Len(themes) :
          LET e == ListedEntries[k]
              base == BaseName(e.path)
          IN  /\ themes[k].DisplayName = DisplayNameOf(e.doc.Name, e.path)
              /\ themes[k].Name =
                    IF SubSeq(base, Len(base) - 4, Len(base)) = dotJson
                    THEN SubSeq(base, 1, Len(base) - 5)
                    ELSE base
              /\ themes[k].Path = e.path
              /\ themes[k].Type = e.doc.Type

\* C16 witness: the catalog returned lists "Two" of -1/themes/a.json, for
\* which no label can be derived, and "One (Bar by Foo)" of
\* foo.bar-1.2.3/themes/dark.json with the identifier "dark".
C16_Witness ==
    /\ pc = "returned"
    /\ Len(themes) = 2
    /\ themes[1].DisplayName = <<"T", "w", "o">>
    /\ themes[1].Type = "light"
    /\ themes[2].DisplayName = SomeName \o <<" ", "(", "B", "a", "r", " ", "b", "y", " ", "F", "o", "o", ")">>
    /\ themes[2].Name = <<"d", "a", "r", "k">>
    /\ themes[2].Path = ListedEntries[2].path
    /\ themes[2].Type = "dark"

(***************************************************************************)
(* The interactive program: main, initialModel and Model.Update.           *)
(***************************************************************************)
\* a gate that lets Windows through under the policy that rejects it (a
\* variant that is not the code's)
validatePlatformSupportOpen(os) == "nil"

\* validatePlatformSupport of the earlier paths file: Windows is rejected
validatePlatformSupportNoWindows(os) ==
    IF os = "windows" THEN "Warp terminal is not available on Windows" ELSE "nil"

\* validatePlatformSupport: every platform is supported
validatePlatformSupport(os) == "nil"

\* the walk of DiscoverVSCodeThemes from call w[1] on, acc being what the
\* calls before have gathered
RECURSIVE WalkDir(_, _, _)
WalkDir(w, os, acc) ==
    IF w = <<>> THEN acc
    ELSE LET r == walkDirFunc(Head(w), os)
         IN  IF r.err
             THEN [err |-> "failed to walk extensions directory",
                   themes |-> <<>>, reads |-> acc.reads]
             ELSE WalkDir(Tail(w), os,
                          [err |-> "nil", themes |-> acc.themes \o r.found,
                           reads |-> acc.reads \o r.read])

\* DiscoverVSCodeThemes as one call: the catalog and the error it returns,
\* and the files it read
DiscoverVSCodeThemes(homeKnown, w, os) ==
    IF ~homeKnown
    THEN [err |-> "failed to get VS Code extensions path",
          themes |-> <<>>, reads |-> <<>>]
    ELSE WalkDir(w, os, [err |-> "nil", themes |-> <<>>, reads |-> <<>>])

\* what tea.KeyMsg.String() gives for the keys pressed
KeyCtrlC == <<"c", "t", "r", "l", "+", "c">>
KeyEsc == <<"e", "s", "c">>
KeyEnter == <<"e", "n", "t", "e", "r">>
KeyBackspace == <<"b", "a", "c", "k", "s", "p", "a", "c", "e">>
KeyUp == <<"u", "p">>
KeyDown == <<"d", "o", "w", "n">>
KeyPgDown == <<"p", "g", "d", "o", "w", "n">>

Keys ==
    { KeyCtrlC, KeyEsc, KeyEnter, KeyBackspace, KeyUp, KeyDown, KeyPgDown,
      <<"q">>, <<"/">>, <<"g">>, <<"G">>, <<"f">>, <<"W">> }

\* list.SetItems: the cursor stays on an item of the new list
SetItems(mdl, items) ==
    [mdl EXCEPT !.cursor = IF @ < Len(items) THEN @
                           ELSE IF Len(items) = 0 THEN 0 ELSE Len(items) - 1]

\* filterThemes with the texts compared as they are (a variant that is not
\* the code's)
filterThemesExact(mdl) ==
    LET matches(theme) == Contains(theme.DisplayName, mdl.filterText)
        filtered == IF mdl.filterText = <<>> THEN mdl.themes
                    ELSE SelectSeq(mdl.themes, matches)
    IN  SetItems([mdl EXCEPT !.filteredThemes = filtered], filtered)

\* Model.filterThemes: filteredThemes becomes the themes whose display name
\* contains the filter text, both in lower case, and the list is given them
filterThemes(mdl) ==
    LET filterLower == ToLower(mdl.filterText)
        matches(theme) == Contains(ToLower(theme.DisplayName), filterLower)
        filtered == IF mdl.filterText = <<>> THEN mdl.themes
                    ELSE SelectSeq(mdl.themes, matches)
    IN  SetItems([mdl EXCEPT !.filteredThemes = filtered], filtered)

\* an Update that returns mdl and no command
Returns(mdl) == {[m |-> mdl, cmd |-> "nil", theme |-> NoThemeInfo]}

\* an Update that sets quitting and returns tea.Quit
Quits(mdl) ==
    {[m |-> [mdl EXCEPT !.quitting = TRUE], cmd |-> "tea.Quit", theme |-> NoThemeInfo]}

\* list.Update for a key the program does not handle itself: the list may
\* move its cursor and may return a command of its own
ListUpdate(mdl) ==
    { [m |-> [mdl EXCEPT !.cursor = c], cmd |-> listCmd, theme |-> NoThemeInfo] :
      c \in {0} \cup {i \in 1..(Len(mdl.filteredThemes) - 1) : TRUE},
      listCmd \in {"nil", "list"} }

\* the branch of Update for a key pressed in filter mode
UpdateFilterMode(mdl, key) ==
    CASE key = KeyCtrlC -> Quits(mdl)
      [] key = KeyEsc ->
            Returns(filterThemes([mdl EXCEPT !.filterMode = FALSE, !.filterText = <<>>]))
      [] key = KeyEnter -> Returns([mdl EXCEPT !.filterMode = FALSE])
      [] key = KeyBackspace ->
            IF Len(mdl.filterText) > 0
            THEN Returns(filterThemes(
                    [mdl EXCEPT !.filterText = SubSeq(@, 1, Len(@) - 1)]))
            ELSE Returns(mdl)
      [] OTHER ->
            IF Len(key) = 1
            THEN Returns(filterThemes([mdl EXCEPT !.filterText = @ \o key]))
            ELSE Returns(mdl)

\* the branch of Update for a key pressed in normal navigation mode
UpdateNormalMode(mdl, key) ==
    CASE key = KeyCtrlC \/ key = <<"q">> -> Quits(mdl)
      [] key = <<"/">> -> Returns([mdl EXCEPT !.filterMode = TRUE])
      [] key = KeyEnter ->
            IF mdl.cursor < Len(mdl.filteredThemes)
            THEN LET selected == mdl.filteredThemes[mdl.cursor + 1]
                 IN  {[m |-> [mdl EXCEPT !.choice = selected.DisplayName,
                                         !.converting = TRUE],
                       cmd |-> "convertTheme", theme |-> selected]}
            ELSE Returns(mdl)
      [] key = KeyUp \/ key = <<"k">> ->
            Returns([mdl EXCEPT !.cursor = IF @ > 0 THEN @ - 1 ELSE @])
      [] key = KeyDown \/ key = <<"j">> ->
            Returns([mdl EXCEPT !.cursor =
                        IF @ + 1 < Len(mdl.filteredThemes) THEN @ + 1 ELSE @])
      [] key = <<"g">> -> Returns([mdl EXCEPT !.cursor = 0])
      [] key = <<"G">> ->
            Returns([mdl EXCEPT !.cursor =
                        IF Len(mdl.filteredThemes) = 0 THEN 0
                        ELSE Len(mdl.filteredThemes) - 1])
      [] OTHER -> ListUpdate(mdl)

\* Update without the test for a conversion under way or over (a variant
\* that is not the code's)
UpdateNoEndStates(mdl, message) ==
    CASE message.type = "errorMsg" ->
            Returns([mdl EXCEPT !.converting = FALSE, !.errorMsg = message.err])
      [] message.type = "convertedMsg" ->
            Returns([mdl EXCEPT !.converting = FALSE, !.converted = TRUE])
      [] message.type = "WindowSizeMsg" ->
            Returns([mdl EXCEPT !.width = message.width])
      [] message.type = "KeyMsg" ->
            IF mdl.filterMode THEN UpdateFilterMode(mdl, message.key)
            ELSE UpdateNormalMode(mdl, message.key)

\* Model.Update: the models and commands it may return for a message
Update(mdl, message) ==
    CASE message.type = "errorMsg" ->
            Returns([mdl EXCEPT !.converting = FALSE, !.errorMsg = message.err])
      [] message.type = "convertedMsg" ->
            Returns([mdl EXCEPT !.converting = FALSE, !.converted = TRUE])
      [] message.type = "WindowSizeMsg" ->
            Returns([mdl EXCEPT !.width = message.width])
      [] message.type = "KeyMsg" ->
            IF mdl.converting \/ mdl.converted \/ mdl.errorMsg # ""
            THEN IF message.key = KeyCtrlC \/ message.key = <<"q">>
                 THEN Quits(mdl)
                 ELSE Returns(mdl)
            ELSE IF mdl.filterMode THEN UpdateFilterMode(mdl, message.key)
            ELSE UpdateNormalMode(mdl, message.key)

\* initialModel with an empty catalog accepted (a variant that is not the
\* code's)
initialModelAnyCatalog(catalog, err) ==
    IF err # "nil"
    THEN [fatal |-> "Failed to discover VS Code themes", m |-> NoModel]
    ELSE [fatal |-> "",
          m |-> [NoModel EXCEPT !.themes = catalog, !.filteredThemes = catalog,
                                !.width = 80]]

\* initialModel, from the result of DiscoverVSCodeThemes on: log.Fatal on an
\* error or an empty catalog, otherwise the first Model
initialModel(catalog, err) ==
    IF err # "nil"
    THEN [fatal |-> "Failed to discover VS Code themes", m |-> NoModel]
    ELSE IF Len(catalog) = 0
    THEN [fatal |-> "No VS Code themes found", m |-> NoModel]
    ELSE [fatal |-> "",
          m |-> [NoModel EXCEPT !.themes = catalog, !.filteredThemes = catalog,
                                !.width = 80]]

\* the walks of the runs of the program: the root cannot be read, or some of
\* the files -1/themes/a.json, themes/bad.json and themes/dark.json are
\* found below it
MainWalks(os) ==
    LET root == Join(getVSCodeExtensionsPath(os), Separator(os))
    IN  { <<[path |-> root, isDir |-> TRUE, err |-> TRUE, doc |-> NoDoc]>> }
        \cup
        { <<[path |-> root, isDir |-> TRUE, err |-> FALSE, doc |-> NoDoc]>>
          \o [i \in 1..Cardinality(S) |-> WalkEntry(Pick(TreeEntries, S, 1)[i], os)] :
          S \in SUBSET {2, 8, 9} }

\* the document in the file at path p
DocAt(p) == (CHOOSE i \in 1..Len(walk) : walk[i].path = p)

InitMain ==
    /\ stage = "main"
    /\ pc = "idle"
    /\ goos \in {"linux", "windows"}
    /\ xdgDataHome = ""
    /\ policy \in {"all platforms", "no windows"}
    /\ walk \in MainWalks(goos)
    /\ visited = 0
    /\ reads = <<>>
    /\ themes = <<>>
    /\ discoverErr = "none"
    /\ supported = "unchecked"
    /\ model = NoModel
    /\ cmd = "nil"
    /\ conversions = 0
    /\ quitCmd = FALSE
    /\ filePath = NoString
    /\ extensionName = NoString
    /\ color = NoString
    /\ cleaned = NoString
    /\ name = NoString
    /\ filename = NoString
    /\ CommandIdle

\* main: with --help or -h the usage is printed and the program returns
Main ==
    /\ stage = "main"
    /\ \E help \in BOOLEAN :
          stage' = IF help THEN "exited" ELSE "initialModel"
    /\ UNCHANGED <<pc, color, cleaned, name, filename, filePath, extensionName>>
    /\ UNCHANGED <<commandVars, platformVars, discoveryVars>>
    /\ UNCHANGED <<policy, supported, model, cmd, conversions, quitCmd>>

\* initialModel: the platform is checked first, log.Fatal if unsupported
ValidatePlatformSupport ==
    /\ stage = "initialModel"
    /\ LET err == IF policy = "no windows"
                  THEN validatePlatformSupportNoWindows(goos)
                  ELSE validatePlatformSupport(goos)
       IN  IF err # "nil"
           THEN supported' = "unsupported" /\ stage' = "fatal"
           ELSE supported' = "supported" /\ stage' = "discover"
    /\ UNCHANGED <<pc, color, cleaned, name, filename, filePath, extensionName>>
    /\ UNCHANGED <<commandVars, platformVars, discoveryVars>>
    /\ UNCHANGED <<policy, model, cmd, conversions, quitCmd>>

\* initialModel: the themes are discovered
DiscoverThemes ==
    /\ stage = "discover"
    /\ \E homeKnown \in BOOLEAN :
          LET r == DiscoverVSCodeThemes(homeKnown, walk, goos)
          IN  /\ themes' = r.themes
              /\ reads' = r.reads
              /\ discoverErr' = r.err
    /\ stage' = "catalog"
    /\ UNCHANGED <<pc, color, cleaned, name, filename, filePath, extensionName>>
    /\ UNCHANGED <<commandVars, platformVars, walk, visited>>
    /\ UNCHANGED <<policy, supported, model, cmd, conversions, quitCmd>>

\* initialModel: log.Fatal on an error or an empty catalog, otherwise the
\* Model is made and the program runs
InitialModel ==
    /\ stage = "catalog"
    /\ LET r == initialModel(themes, discoverErr)
       IN  IF r.fatal # ""
           THEN stage' = "fatal" /\ model' = model
           ELSE stage' = "run" /\ model' = r.m
    /\ UNCHANGED <<pc, color, cleaned, name, filename, filePath, extensionName>>
    /\ UNCHANGED <<commandVars, platformVars, discoveryVars>>
    /\ UNCHANGED <<policy, supported, cmd, conversions, quitCmd>>

\* the messages Update is given
KeyMsg(key) == [type |-> "KeyMsg", key |-> key, err |-> "", width |-> 0]
ErrorMsg(err) == [type |-> "errorMsg", key |-> <<>>, err |-> err, width |-> 0]
ConvertedMsg == [type |-> "convertedMsg", key |-> <<>>, err |-> "", width |-> 0]
WindowSizeMsg(width) == [type |-> "WindowSizeMsg", key |-> <<>>, err |-> "", width |-> width]

\* a key is pressed: Update, and the command it returns is started
Key ==
    /\ stage = "run"
    /\ \E key \in Keys : \E r \in Update(model, KeyMsg(key)) :
          /\ Len(r.m.filterText) <= MaxFilterLen
          /\ model' = r.m
          /\ cmd' = r.cmd
          /\ quitCmd' = (quitCmd \/ r.cmd = "tea.Quit")
          /\ IF r.cmd = "convertTheme"
             THEN /\ conversions' = conversions + 1
                  /\ pc' = "load"
                  /\ themeFile' = [Name |-> walk[DocAt(r.theme.Path)].doc.Name,
                                   Type |-> walk[DocAt(r.theme.Path)].doc.Type,
                                   Colors |-> <<>>]
             ELSE UNCHANGED <<conversions, pc, themeFile>>
    /\ UNCHANGED <<color, cleaned, name, filename, filePath, extensionName>>
    /\ UNCHANGED <<vscodeTheme, extensionMetadata, warpTheme, files, msg, run>>
    /\ UNCHANGED <<platformVars, discoveryVars, stage, policy, supported>>

\* the terminal is resized
WindowSize ==
    /\ stage = "run"
    /\ \E width \in {80, 100} : \E r \in Update(model, WindowSizeMsg(width)) :
          /\ model' = r.m
          /\ cmd' = r.cmd
    /\ UNCHANGED <<pc, color, cleaned, name, filename, filePath, extensionName>>
    /\ UNCHANGED <<commandVars, platformVars, discoveryVars>>
    /\ UNCHANGED <<stage, policy, supported, conversions, quitCmd>>

\* the message the convertTheme command returned is handed to Update
CommandMsg ==
    /\ stage = "run"
    /\ pc = "done"
    /\ \E r \in Update(model, IF msg = "converted" THEN ConvertedMsg
                                ELSE ErrorMsg(msg)) :
          /\ model' = r.m
          /\ cmd' = r.cmd
    /\ pc' = "delivered"
    /\ UNCHANGED <<color, cleaned, name, filename, filePath, extensionName>>
    /\ UNCHANGED <<commandVars, platformVars, discoveryVars>>
    /\ UNCHANGED <<stage, policy, supported, conversions, quitCmd>>

\* tea.Quit is carried out: the program ends
Quit ==
    /\ stage = "run"
    /\ quitCmd
    /\ stage' = "exited"
    /\ quitCmd' = FALSE
    /\ UNCHANGED <<pc, color, cleaned, name, filename, filePath, extensionName>>
    /\ UNCHANGED <<commandVars, platformVars, discoveryVars>>
    /\ UNCHANGED <<policy, supported, model, cmd, conversions>>

NextMain ==
    \/ Main
    \/ ValidatePlatformSupport
    \/ DiscoverThemes
    \/ InitialModel
    \/ Key
    \/ WindowSize
    \/ stage = "run" /\ LoadVSCodeTheme
    \/ stage = "run" /\ LoadExtensionMetadata
    \/ stage = "run" /\ ConvertCall
    \/ stage = "run" /\ SaveWarpTheme
    \/ CommandMsg
    \/ Quit

SpecMain == InitMain /\ [][NextMain]_vars

(***************************************************************************)
(* Claims about the interactive program (checked under SpecMain).          *)
(***************************************************************************)
\* something of discovery or conversion has happened in this run
WorkDone ==
    \/ stage \in {"discover", "catalog", "run"}
    \/ reads # <<>>
    \/ themes # <<>>
    \/ discoverErr # "none"
    \/ model # NoModel
    \/ pc # "idle"
    \/ conversions > 0
    \/ vscodeTheme # NoTheme
    \/ warpTheme # NoWarpTheme
    \/ files # {}

C18_CatalogNeverEmpty ==
    /\ [](stage = "run" \/ model # NoModel =>
             model.themes # <<>> /\ model.themes = themes)
    /\ [][stage = "catalog" /\ themes = <<>> =>
             stage' = "fatal" /\ model' = NoModel]_vars

\* C18 witness: the program runs with a filter that no theme matches: the
\* filtered list is empty, the full list is not.
C18_Witness ==
    /\ stage = "run"
    /\ model.filterText # <<>>
    /\ model.filteredThemes = <<>>
    /\ model.themes # <<>>

\* a conversion is under way or over
EndState == model.converting \/ model.converted \/ model.errorMsg # ""

\* C19: at most one conversion is started per session: once one is started
\* the model is and stays in a conversion or end state, in which every key
\* other than q and ctrl+c leaves the whole model unchanged and returns no
\* command; converted is never set together with converting or with an
\* error message.
C19_OneConversion ==
    /\ conversions <= 1
    /\ conversions = 1 => EndState
    /\ ~(model.converted /\ model.converting)
    /\ ~(model.converted /\ model.errorMsg # "")
    /\ stage = "run" /\ EndState =>
          \A key \in Keys \ {KeyCtrlC, <<"q">>} :
             Update(model, KeyMsg(key)) =
                {[m |-> model, cmd |-> "nil", theme |-> NoThemeInfo]}

\* C19 witness: the one conversion was started by Enter and has completed;
\* the program still runs and takes keys.
C19_Witness ==
    /\ stage = "run"
    /\ conversions = 1
    /\ pc = "delivered"
    /\ model.converted
    /\ ~model.quitting

\* s contains t, compared without regard to the case of letters
ContainsFold(s, t) ==
    \E i \in 0..(Len(s) - Len(t)) :
       \A k \in 1..Len(t) : LowerChar(s[i + k]) = LowerChar(t[k])

\* the theme's display name contains the filter text
MatchesFilter(theme) == ContainsFold(theme.DisplayName, model.filterText)

\* C20: filteredThemes is always the themes, in catalog order, whose display
\* name contains filterText compared case-insensitively (all of them when
\* filterText is empty); Esc in filter mode clears filterText and restores
\* the whole catalog, Enter in filter mode leaves filterText and
\* filteredThemes as they are.
C20_FilteredThemes ==
    model # NoModel =>
       /\ model.filteredThemes = SelectSeq(model.themes, MatchesFilter)
       /\ model.filterMode =>
             /\ \A r \in Update(model, KeyMsg(KeyEsc)) :
                   /\ r.m.filterText = <<>>
                   /\ r.m.filteredThemes = model.themes
             /\ \A r \in Update(model, KeyMsg(KeyEnter)) :
                   /\ r.m.filterText = model.filterText
                   /\ r.m.filteredThemes = model.filteredThemes

\* C20 witness: in filter mode "W" was typed and of the two themes only
\* "Two" is listed.
C20_Witness ==
    /\ stage = "run"
    /\ model.filterMode
    /\ model.filterText = <<"W">>
    /\ Len(model.themes) = 2
    /\ Len(model.filteredThemes) = 1
    /\ model.filteredThemes[1].DisplayName = <<"T", "w", "o">>

=============================================================================
